---- MODULE Spec2Model ----
(***************************************************************************)
(* Model of the BWX (.BNX/.PNX) codec of io_scene_bwx:                     *)
(*   - the construct declarations of bwx_construct.py (PackedInt,          *)
(*     bwx_value, the structural records, bwx_struct),                     *)
(*   - the importer of bwx_io.py (BWXImporter.read and its helpers),       *)
(*   - the writer of bwx_writer.py (BWXWriter.build and its helpers, and   *)
(*     BWXWriter.write on a path of the file system),                      *)
(*   - the choice of materials in bwx_blender.py (BWXBlender.create).      *)
(*                                                                         *)
(* A byte stream is a sequence of integers 0..255.  A Python str is the    *)
(* sequence of its code points.  A Python float is a dyadic rational       *)
(* m * 2^e kept in lowest terms (m odd, or m = 0 and e = 0); every float32 *)
(* and every double the model computes is of that form.  A Python int that *)
(* may exceed the model checker's integers is a sequence of base-2^16      *)
(* limbs, least significant first, without leading zero limbs.             *)
(***************************************************************************)
EXTENDS Integers, Sequences, FiniteSets, TLC

VARIABLES
    file,         \* the importer's path: "present", "missing", "denied"
    content,      \* bytes of the file at the importer's path (Path.read_bytes)
    data,         \* BWXImporter._data: materials, objects, cameras
    sl_version,   \* BWXImporter._sl_version
    pc,           \* importer: "new", "read_ok", "read_err"
    err,          \* kind of the exception raised inside the last read's try block
    raised,       \* exception the last read raised to its caller: type and message
    reads,        \* number of reads made on the importer
    wsrc,         \* BWXWriter._data
    wver,         \* BWXWriter._version
    wpc,          \* writer: "none", "idle", "built", "build_err", "written", "write_err"
    out,          \* bytes returned by BWXWriter.build()
    pc2,          \* a fresh importer reading out: "new", "read_ok", "read_err"
    data2,        \* that importer's _data
    vi,           \* VarInt scenario: value, encoder, encoded bytes, decode result
    probe,        \* a stream given to one construct declaration, and what it parsed
    disk,         \* the writer's output path on disk: its directory and its file
    wstep,        \* statements of write()'s try block executed so far
    wraised,      \* exception write() raised to its caller
    filepath,     \* BWXData.filepath: the characters of the importer's path
    animation_name, \* BWXData.animation_name
    blender,      \* BWXBlender: position, objects created with their materials, error
    PackedInt_length, \* PackedInt.length, an attribute of the one PackedInt instance
    decodes       \* two decode passes of one array each: position, size, count, data length

vars == <<file, content, data, sl_version, pc, err, raised, reads, wsrc, wver, wpc, out,
          pc2, data2, vi, probe, disk, wstep, wraised, filepath, animation_name, blender,
          PackedInt_length, decodes>>

----------------------------------------------------------------------------
(* Bounds of the model.                                                    *)

(* Reads made on one importer.                                             *)
MaxReads == 2
(* The VarInt values 0..MaxSmall are encoded next to the boundary values.  *)
MaxSmall == 40
(* Logical vertices of a mesh.                                             *)
MaxVerts == 3

----------------------------------------------------------------------------
(* Sequences and bytes.                                                    *)

(* The concatenation of the sequences ss[lo..hi], and of all of ss.        *)
RECURSIVE FlattenRange(_, _, _)
FlattenRange(ss, lo, hi) ==
    CASE lo > hi -> <<>>
      [] lo = hi -> ss[lo]
      [] OTHER -> FlattenRange(ss, lo, (lo + hi) \div 2)
                  \o FlattenRange(ss, (lo + hi) \div 2 + 1, hi)

Flatten(ss) == FlattenRange(ss, 1, Len(ss))

Take(s, n) == SubSeq(s, 1, n)
Drop(s, n) == SubSeq(s, n + 1, Len(s))

IsPrefix(p, s) == Len(p) <= Len(s) /\ SubSeq(s, 1, Len(p)) = p

Repeat(x, n) == [i \in 1..n |-> x]

Range(s) == {s[i] : i \in 1..Len(s)}

(* Index of the first element of s equal to x, 0 when there is none.       *)
IndexFrom(s, x, i) ==
    IF \E j \in i..Len(s) : s[j] = x
    THEN CHOOSE j \in i..Len(s) : s[j] = x /\ \A k \in i..(j - 1) : s[k] # x
    ELSE 0

(* Index of the last element of s that lies in set xs, 0 when none.        *)
LastIndexIn(s, xs, i) ==
    IF \E j \in 1..i : s[j] \in xs
    THEN CHOOSE j \in 1..i : s[j] \in xs /\ \A k \in (j + 1)..i : s[k] \notin xs
    ELSE 0

----------------------------------------------------------------------------
(* Python integers that may exceed 2^31: base-2^16 limbs, least            *)
(* significant first.  WLow7, WShr7 and WShl7Or are x & 0x7F, x >> 7 and   *)
(* (x << 7) | b on that representation.                                    *)

Limb == 2^16

RECURSIVE WNorm(_)
WNorm(x) ==
    IF x # <<>> /\ x[Len(x)] = 0 THEN WNorm(SubSeq(x, 1, Len(x) - 1)) ELSE x

W(n) == WNorm(<<n % Limb, n \div Limb>>)

WFits(x) == Len(x) <= 1 \/ (Len(x) = 2 /\ x[2] < 2^15)

(* The value of x as a model integer; values of 2^31 and more do not occur *)
(* where this is used (sizes and counts of the modelled files).            *)
WToNat(x) ==
    IF x = <<>> THEN 0
    ELSE IF Len(x) = 1 THEN x[1]
    ELSE IF WFits(x) THEN x[1] + x[2] * Limb
    ELSE 2^30 + (2^30 - 1)

WLow7(x) == IF x = <<>> THEN 0 ELSE x[1] % 128

WGt7F(x) == Len(x) > 1 \/ (Len(x) = 1 /\ x[1] > 127)

WShr7(x) ==
    WNorm([i \in 1..Len(x) |->
        (x[i] \div 128) + (IF i < Len(x) THEN (x[i + 1] % 128) * 512 ELSE 0)])

WShl7Or(x, b) ==
    WNorm([i \in 1..(Len(x) + 1) |->
        (IF i <= Len(x) THEN (x[i] % 512) * 128 ELSE 0)
        + (IF i = 1 THEN b ELSE x[i - 1] \div 512)])

(* A Python int with its sign: the argument of the VarInt encoders.        *)
PyBig(neg, w) == [neg |-> neg, w |-> w]

----------------------------------------------------------------------------
(* Read cursor: p is the number of bytes consumed, e the exception raised  *)
(* so far ("" when none).  Every parser leaves a failed cursor unchanged,  *)
(* so the first exception is the one that reaches BWXImporter.read.        *)

Cur(p) == [p |-> p, e |-> ""]
Fail(c, kind) == [p |-> c.p, e |-> kind]
Ok(c) == c.e = ""

(* construct stream_read: n bytes or StreamError.                          *)
stream_read(s, c, n) ==
    IF c.e # "" THEN [c |-> c, v |-> <<>>]
    ELSE IF n < 0 \/ c.p + n > Len(s) THEN [c |-> Fail(c, "StreamError"), v |-> <<>>]
    ELSE [c |-> Cur(c.p + n), v |-> SubSeq(s, c.p + 1, c.p + n)]

----------------------------------------------------------------------------
(* PackedInt (bwx_construct.py) and BWXWriter._build_varint.               *)

(* The while loop of PackedInt._parse: the 7-bit groups up to and          *)
(* including the first byte with the high bit clear.                       *)
RECURSIVE ReadGroups(_, _)
ReadGroups(s, p) ==
    IF p >= Len(s) THEN [ok |-> FALSE, acc |-> <<>>]
    ELSE LET b == s[p + 1] IN
         IF b \div 128 = 0 THEN [ok |-> TRUE, acc |-> <<b % 128>>]
         ELSE LET r == ReadGroups(s, p + 1) IN
              [ok |-> r.ok, acc |-> <<b % 128>> \o r.acc]

(* for b in reversed(acc): num = (num << 7) | b                            *)
RECURSIVE FoldGroups(_, _, _)
FoldGroups(acc, i, num) ==
    IF i < 1 THEN num ELSE FoldGroups(acc, i - 1, WShl7Or(num, acc[i]))

(* Variant: the groups folded first to last (most significant group        *)
(* first).                                                                 *)
RECURSIVE FoldGroupsForward(_, _, _)
FoldGroupsForward(acc, i, num) ==
    IF i < 1 THEN num
    ELSE FoldGroupsForward(acc, i - 1, WShl7Or(num, acc[Len(acc) + 1 - i]))

PackedInt_parse_BigEndian(s, c) ==
    IF c.e # "" THEN [c |-> c, v |-> <<>>, length |-> 0]
    ELSE LET r == ReadGroups(s, c.p) IN
         IF ~r.ok THEN [c |-> Fail(c, "StreamError"), v |-> <<>>, length |-> 0]
         ELSE [c |-> Cur(c.p + Len(r.acc)),
               v |-> FoldGroupsForward(r.acc, Len(r.acc), <<>>),
               length |-> Len(r.acc)]

(* PackedInt._parse: v is the number, length the value left in the         *)
(* singleton's self.length.                                                *)
PackedInt_parse(s, c) ==
    IF c.e # "" THEN [c |-> c, v |-> <<>>, length |-> 0]
    ELSE LET r == ReadGroups(s, c.p) IN
         IF ~r.ok THEN [c |-> Fail(c, "StreamError"), v |-> <<>>, length |-> 0]
         ELSE [c |-> Cur(c.p + Len(r.acc)),
               v |-> FoldGroups(r.acc, Len(r.acc), <<>>),
               length |-> Len(r.acc)]

(* construct's VarInt (sizes and counts of the structural records): the    *)
(* same wire format, the value as a model integer.                         *)
VarInt_parse(s, c) ==
    LET r == PackedInt_parse(s, c) IN [c |-> r.c, v |-> WToNat(r.v)]

(* A failed build is the poison byte -1 in the output.                     *)
BuildError == <<0 - 1>>
Poisoned(b) == \E i \in 1..Len(b) : b[i] < 0

(* PackedInt._build: while x > 0x7F: B.append(0x80 | (x & 0x7F)); x >>= 7, *)
(* then B.append(x); a negative obj raises IntegerError.                   *)
RECURSIVE PackedIntLoop(_)
PackedIntLoop(x) ==
    IF WGt7F(x) THEN <<128 + WLow7(x)>> \o PackedIntLoop(WShr7(x))
    ELSE <<WToNat(x)>>

(* Variant: the sign of obj is not looked at.                              *)
PackedInt_build_Unchecked(n) == PackedIntLoop(n.w)

PackedInt_build(n) == IF n.neg THEN BuildError ELSE PackedIntLoop(n.w)

(* BWXWriter._build_varint: while value > 0x7F: append((value & 0x7F) |    *)
(* 0x80); value >>= 7, then append(value & 0x7F); a negative value raises  *)
(* ValueError.                                                             *)
RECURSIVE VarIntLoop(_)
VarIntLoop(x) ==
    IF WGt7F(x) THEN <<WLow7(x) + 128>> \o VarIntLoop(WShr7(x))
    ELSE <<WLow7(x)>>

(* Variant of the loop that never sets the continuation bit.               *)
build_varint_NoContinuation(n) ==
    IF n.neg THEN BuildError
    ELSE IF WGt7F(n.w) THEN <<WLow7(n.w)>> \o VarIntLoop(WShr7(n.w))
    ELSE <<WLow7(n.w)>>

build_varint(n) == IF n.neg THEN BuildError ELSE VarIntLoop(n.w)

(* _build_varint of a small non-negative length or count.                  *)
VarIntOf(k) == build_varint(PyBig(k < 0, W(IF k < 0 THEN 0 ELSE k)))

----------------------------------------------------------------------------
(* Floats.  F32_parse is construct's Float32l (struct.unpack('<f')),       *)
(* F32_pack is struct.pack('<f', x) with its round-to-nearest-even, and    *)
(* OneMinus is the double subtraction 1 - x.  Non-finite values and -0.0   *)
(* are not distinguished from the finite value of the same fields; the     *)
(* floats of the modelled files are finite with exponents of -30 and more, *)
(* for which every double operation below is exact.                        *)

Abs(n) == IF n < 0 THEN 0 - n ELSE n

(* Number of trailing zero bits and number of bits of 0 < a < 2^31.        *)
Tz(a) == CHOOSE t \in 0..30 : a % (2^t) = 0 /\ (a \div (2^t)) % 2 = 1
BitLen(a) == CHOOSE k \in 1..31 : a \div (2^(k - 1)) = 1

Dy(m, e) == [m |-> m, e |-> e]

DyNorm(m, e) ==
    IF m = 0 THEN Dy(0, 0)
    ELSE LET t == Tz(Abs(m)) IN
         Dy((IF m < 0 THEN 0 - 1 ELSE 1) * (Abs(m) \div (2^t)), e + t)

F32_parse(b) ==
    LET sign == b[4] \div 128
        E == (b[4] % 128) * 2 + (b[3] \div 128)
        F == (b[3] % 128) * 65536 + b[2] * 256 + b[1]
        sg == IF sign = 1 THEN 0 - 1 ELSE 1
    IN  IF E = 0 THEN DyNorm(sg * F, 0 - 149)
        ELSE DyNorm(sg * (2^23 + F), E - 150)

(* The bytes of sign, biased exponent E and 24-bit significand M.          *)
F32_bytes(sign, E, M) ==
    LET F == M % (2^23) IN
    <<F % 256, (F \div 256) % 256, (F \div 65536) + (E % 2) * 128,
      (E \div 2) + sign * 128>>

F32_exp(sign, M, E) ==
    IF E >= 255 THEN BuildError            \* OverflowError
    ELSE IF E >= 1 THEN F32_bytes(sign, E, M)
    ELSE IF E > 0 - 24 THEN F32_bytes(sign, 0, M \div (2^(1 - E)))
    ELSE <<0, 0, 0, sign * 128>>

(* a \div 2^k rounded to nearest, ties to even.                            *)
RoundHalfEven(a, k) ==
    LET q == a \div (2^k)
        r == a % (2^k)
    IN  IF r > 2^(k - 1) \/ (r = 2^(k - 1) /\ q % 2 = 1) THEN q + 1 ELSE q

(* The float32 nearest to a * 2^e, a having L bits: the significand in     *)
(* [2^23, 2^24) and the exponent of its last bit.                          *)
F32_carry(sign, e, k, q1) ==
    IF q1 = 2^24 THEN F32_exp(sign, 2^23, e + k + 1 + 150)
    ELSE F32_exp(sign, q1, e + k + 150)

F32_round(a, sign, e, L) ==
    IF L <= 24 THEN F32_exp(sign, a * (2^(24 - L)), e - (24 - L) + 150)
    ELSE F32_carry(sign, e, L - 24, RoundHalfEven(a, L - 24))

F32_pack(x) ==
    IF x.m = 0 THEN <<0, 0, 0, 0>>
    ELSE F32_round(Abs(x.m), IF x.m < 0 THEN 1 ELSE 0, x.e, BitLen(Abs(x.m)))

(* 1 - x in double arithmetic.                                             *)
OneMinus(x) ==
    IF x.m = 0 THEN Dy(1, 0)
    ELSE IF x.e >= 0 THEN DyNorm(1 - x.m * (2^x.e), 0)
    ELSE IF x.e >= 0 - 30 THEN DyNorm((2^(0 - x.e)) - x.m, x.e)
    ELSE Dy(1, 0)

(* Variant: the V coordinate is passed through without the flip.           *)
FlipV_Identity(x) == x

(* The UV flip of the v2 codec: 1 - v (reader) and 1.0 - uv[1] (writer).   *)
FlipV(x) == OneMinus(x)

----------------------------------------------------------------------------
(* Python values.  One record shape for every dynamic value:               *)
(*   int    i                       float  i * 2^x                         *)
(*   str    b (code points)         bytes  b                               *)
(*   none                           array  the Container of bwx_array:     *)
(*                                         size i, count x, data b         *)
(*   list   b (the entries of a bwx_darray)                                *)
(*   tuple  b (floats: the colours the scene extractor produces)           *)

PyInt(n) == [k |-> "int", i |-> n, x |-> 0, b |-> <<>>]
(* The int hi * 2^31 + lo for hi >= 1 and 0 <= lo < 2^31, which is past    *)
(* the integers of the model.                                              *)
PyUInt(hi, lo) == [k |-> "int", i |-> lo, x |-> hi, b |-> <<>>]
PyFloat(d) == [k |-> "float", i |-> d.m, x |-> d.e, b |-> <<>>]
PyStr(cps) == [k |-> "str", i |-> 0, x |-> 0, b |-> cps]
PyBytes(bs) == [k |-> "bytes", i |-> 0, x |-> 0, b |-> bs]
PyNone == [k |-> "none", i |-> 0, x |-> 0, b |-> <<>>]
PyArr(size, count, bs) == [k |-> "array", i |-> size, x |-> count, b |-> bs]
PyList(items) == [k |-> "list", i |-> 0, x |-> 0, b |-> items]
PyTuple(items) == [k |-> "tuple", i |-> 0, x |-> 0, b |-> items]

(* Code points of the string constants of the format.                      *)
S_SLBWX == <<83, 76, 66, 87, 88>>
S_PNX == <<80, 78, 88>>
S_TEX == <<84, 69, 88>>
S_SUBMTRL == <<83, 85, 66, 77, 84, 82, 76>>
S_MTRL == <<77, 84, 82, 76>>
S_MATRIX == <<77, 65, 84, 82, 73, 88>>
S_MESHF == <<77, 69, 83, 72, 70>>
S_MESH == <<77, 69, 83, 72>>
S_OBJ2 == <<79, 66, 74, 50>>
S_DXMESHF == <<68, 88, 77, 69, 83, 72, 70>>
S_DXMESH == <<68, 88, 77, 69, 83, 72>>
S_DXOBJ == <<68, 88, 79, 66, 74>>
S_CAM == <<67, 65, 77>>
S_HEAD == <<72, 69, 65, 68>>
S_SPOB == <<83, 80, 79, 66>>
S_OBJECT == <<79, 66, 74, 69, 67, 84>>
S_LIGHT == <<76, 73, 71, 72, 84>>
S_SOUND == <<83, 79, 85, 78, 68>>
S_BONE == <<66, 79, 78, 69>>
S_CHART == <<67, 72, 65, 82, 84>>
S_0 == <<48>>
S_PNXDESC == <<91, 66, 87, 88, 32, 80, 78, 88, 32, 75, 65, 75, 93>>

(* bytes.decode('euc-kr'): ASCII bytes are their own code points; a lead   *)
(* and a trail byte in 0xA1..0xFE are one character, which the model names *)
(* 256 * lead + trail in place of its Unicode code point (the table is     *)
(* injective); anything else raises UnicodeDecodeError.                    *)
RECURSIVE DecodeEucKr(_)
DecodeEucKr(bs) ==
    IF \A i \in 1..Len(bs) : bs[i] < 128 THEN [ok |-> TRUE, s |-> bs]
    ELSE IF bs[1] < 128 THEN
        LET r == DecodeEucKr(Tail(bs)) IN [ok |-> r.ok, s |-> <<bs[1]>> \o r.s]
    ELSE IF Len(bs) >= 2 /\ bs[1] \in 161..254 /\ bs[2] \in 161..254 THEN
        LET r == DecodeEucKr(Tail(Tail(bs))) IN
        [ok |-> r.ok, s |-> <<256 * bs[1] + bs[2]>> \o r.s]
    ELSE [ok |-> FALSE, s |-> <<>>]

(* str.encode('euc-kr'), the inverse; UnicodeEncodeError otherwise.        *)
RECURSIVE EncodeEucKr(_)
EncodeEucKr(cps) ==
    IF \A i \in 1..Len(cps) : cps[i] < 128 THEN cps
    ELSE IF cps[1] < 128 THEN <<cps[1]>> \o EncodeEucKr(Tail(cps))
    ELSE IF cps[1] \div 256 \in 161..254 /\ cps[1] % 256 \in 161..254 THEN
        <<cps[1] \div 256, cps[1] % 256>> \o EncodeEucKr(Tail(cps))
    ELSE BuildError

(* bytes.decode('utf-8') for ASCII and two-byte sequences; longer          *)
(* sequences do not occur in the block names of the modelled files.        *)
RECURSIVE DecodeUtf8(_)
DecodeUtf8(bs) ==
    IF \A i \in 1..Len(bs) : bs[i] < 128 THEN [ok |-> TRUE, s |-> bs]
    ELSE IF bs[1] < 128 THEN
        LET r == DecodeUtf8(Tail(bs)) IN [ok |-> r.ok, s |-> <<bs[1]>> \o r.s]
    ELSE IF Len(bs) >= 2 /\ bs[1] \in 194..223 /\ bs[2] \in 128..191 THEN
        LET r == DecodeUtf8(Tail(Tail(bs))) IN
        [ok |-> r.ok, s |-> <<(bs[1] - 192) * 64 + (bs[2] - 128)>> \o r.s]
    ELSE [ok |-> FALSE, s |-> <<>>]

(* str.encode('utf-8') on the same range.                                  *)
RECURSIVE EncodeUtf8(_)
EncodeUtf8(cps) ==
    IF \A i \in 1..Len(cps) : cps[i] < 128 THEN cps
    ELSE IF cps[1] < 128 THEN <<cps[1]>> \o EncodeUtf8(Tail(cps))
    ELSE IF cps[1] < 2048 THEN
        <<192 + (cps[1] \div 64), 128 + (cps[1] % 64)>> \o EncodeUtf8(Tail(cps))
    ELSE BuildError

----------------------------------------------------------------------------
(* construct primitives.                                                   *)

(* Const(expected): ConstError when the bytes read differ.                 *)
Const(s, c, expected) ==
    LET r == stream_read(s, c, Len(expected)) IN
    IF Ok(r.c) /\ r.v # expected THEN Fail(c, "ConstError") ELSE r.c

(* CString(encoding) on the bytes d of a Prefixed substream that began at  *)
(* cursor c: the bytes up to the first NUL, decoded; StreamError when      *)
(* there is no NUL.                                                        *)
CString(c, d, utf8) ==
    LET z == IndexFrom(d.v, 0, 1)
        dec == IF utf8 THEN DecodeUtf8(SubSeq(d.v, 1, z - 1))
               ELSE DecodeEucKr(SubSeq(d.v, 1, z - 1))
    IN  IF ~Ok(d.c) THEN [c |-> d.c, v |-> PyNone]
        ELSE IF z = 0 THEN [c |-> Fail(c, "StreamError"), v |-> PyNone]
        ELSE IF ~dec.ok THEN [c |-> Fail(c, "UnicodeDecodeError"), v |-> PyNone]
        ELSE [c |-> d.c, v |-> PyStr(dec.s)]

(* Prefixed(VarInt, ...): the substream of the length read.                *)
PrefixedBytes(s, n) == stream_read(s, n.c, n.v)
Prefixed(s, c) == PrefixedBytes(s, VarInt_parse(s, c))

(* Prefixed(VarInt, CString(encoding)) *)
PrefixedCString(s, c, utf8) == CString(c, Prefixed(s, c), utf8)

(* Little-endian integers of struct.unpack.                                *)
U16(b) == b[1] + 256 * b[2]
I32(b) ==
    LET low == b[1] + 256 * b[2] + 65536 * b[3] + (2^24) * (b[4] % 128) IN
    IF b[4] >= 128 THEN (low - 2^30) - 2^30 ELSE low

Int16ul(s, c) ==
    LET r == stream_read(s, c, 2) IN
    [c |-> r.c, v |-> IF Ok(r.c) THEN U16(r.v) ELSE 0]

(* Int32ul: values of 2^31 and more do not occur in the modelled files     *)
(* (direction tags and matrix timelines are below 2^31).                   *)
Int32ul(s, c) ==
    LET r == stream_read(s, c, 4) IN
    [c |-> r.c, v |-> IF Ok(r.c) THEN I32(<<r.v[1], r.v[2], r.v[3], r.v[4] % 128>>) ELSE 0]

(* Array(n, Float32l) *)
Floats(bs) == [i \in 1..(Len(bs) \div 4) |-> F32_parse(SubSeq(bs, 4 * i - 3, 4 * i))]

FloatArray(s, c, n) ==
    LET r == stream_read(s, c, 4 * n) IN [c |-> r.c, v |-> Floats(r.v)]

----------------------------------------------------------------------------
(* The declarations of bwx_construct.py.  A Struct is the sequence of its  *)
(* fields; a field has a name n and a type t with its arguments:           *)
(*   Const      the bytes b                                                *)
(*   VarInt, PackedInt, Int16ul, Int32ul                                   *)
(*   Float32l   Array(d, Float32l)                                         *)
(*   CString    Prefixed(VarInt, CString(of))                              *)
(*   Bytes      Bytes(this.size - sizeof(count))                           *)
(*   Array      Array(this[by] + d, of)                                    *)
(*   If         If(this[by] > d, of)                                       *)
(*   Sub        the declaration named of                                   *)
(*   Switch     the body of a main block, selected by this.name            *)

Fld(n, t) == [n |-> n, t |-> t, b |-> <<>>, of |-> "", by |-> "", d |-> 0]
FConst(n, b) == [Fld(n, "Const") EXCEPT !.b = b]
FFloats(n, d) == [Fld(n, "Float32l") EXCEPT !.d = d]
FCString(n, of) == [Fld(n, "CString") EXCEPT !.of = of]
FArray(n, by, d, of) == [Fld(n, "Array") EXCEPT !.of = of, !.by = by, !.d = d]
FIf(n, by, d, of) == [Fld(n, "If") EXCEPT !.of = of, !.by = by, !.d = d]
FSub(n, of) == [Fld(n, "Sub") EXCEPT !.of = of]
FValue(n) == FSub(n, "bwx_value")

(* bwx_value.build(dict(type=SL_STRING, data=str)) and                     *)
(* bwx_value.build(dict(type=SL_I32, data=n)): the Const markers.          *)
ConstStr(cps) == <<83, Len(cps) + 1>> \o cps \o <<0>>
ConstPNX == <<73, 0, 88, 78, 80>>
ConstCAMR == <<73, 82, 77, 65, 67>>

S_BWXF == <<66, 87, 88, 70>>
S_FXWB == <<70, 88, 87, 66>>

(* "A" / Const(b'A'), size / VarInt, count / VarInt: the head of every     *)
(* Array record, with the names the declaration gives the two numbers.     *)
ArrayHead(size, count) == <<FConst("A", <<65>>), Fld(size, "VarInt"), Fld(count, "VarInt")>>

bwx_array_fields == <<Fld("size", "VarInt"), Fld("count", "PackedInt"), Fld("data", "Bytes")>>

(* Variant: the data length is the declared size, the count field's own    *)
(* encoded length not subtracted.                                          *)
bwx_array_fields_NoSubtract ==
    <<Fld("size", "VarInt"), Fld("count", "PackedInt"), Fld("data", "BytesOfSize")>>

bwx_struct_fields ==
    <<FConst("signature", S_BWXF), Fld("content_size", "VarInt"),
      Fld("block_count", "VarInt"),
      FArray("block", "block_count", 0, "bwx_main_block_struct"),
      FConst("ending", S_FXWB)>>

(* The fields of the declaration named kind; the Struct nested in an Array *)
(* or a field of declaration X is named X.field.                           *)
Decl(kind) ==
    CASE kind = "bwx_darray" ->
           <<Fld("size", "VarInt"), Fld("count", "PackedInt"),
             FArray("data", "count", 0, "bwx_darray.data")>>
      [] kind = "bwx_darray.data" ->
           <<FCString("name", "euc-kr"), FSub("array", "bwx_darray.data.array")>>
      [] kind = "bwx_darray.data.array" ->
           <<FConst("A", <<65>>), FSub("data", "bwx_array")>>
      [] kind = "bwx_direction" ->
           <<FConst("type", <<73>>), Fld("value", "Int32ul")>>
      [] kind = "bwx_0_struct" ->
           <<FConst("signature", ConstStr(S_SLBWX))>>
      [] kind = "bwx_header_struct" ->
           ArrayHead("size", "count")
           \o <<FValue("name"), FValue("description"), FConst("magic", ConstPNX),
                FConst("version_type", <<87>>), Fld("version", "Int16ul"),
                FValue("other")>>
      [] kind = "bwx_texture_struct" ->
           ArrayHead("size", "count")
           \o <<FConst("TEX", ConstStr(S_TEX)), FValue("most_0"), FValue("filename")>>
      [] kind = "bwx_sub_material_struct" ->
           ArrayHead("size", "count")
           \o <<FConst("SUBMTRL", ConstStr(S_SUBMTRL)), FValue("diffuse"),
                FValue("ambient"), FValue("specular"), FValue("some_float"),
                FValue("highlight"), FValue("most_1"), FValue("unknown"),
                FIf("texture", "count", 8, "bwx_texture_struct")>>
      [] kind = "bwx_material_struct" ->
           ArrayHead("size", "count")
           \o <<FArray("material", "count", 0, "bwx_material_struct.material")>>
      [] kind = "bwx_material_struct.material" ->
           ArrayHead("size", "count")
           \o <<FConst("MTRL", ConstStr(S_MTRL)), FValue("material_name"),
                FArray("sub_material", "count", 0 - 2, "bwx_sub_material_struct")>>
      [] kind = "bwx_matrix_struct" ->
           ArrayHead("size", "count")
           \o <<FConst("MATRIX", ConstStr(S_MATRIX)),
                FArray("matrices", "count", 0 - 1, "bwx_matrix_struct.matrices")>>
      [] kind = "bwx_matrix_struct.matrices" ->
           <<FConst("type", <<196>>), Fld("timeline", "Int32ul"), FFloats("matrix", 16)>>
      [] kind = "bwx_matrix2_struct" ->
           ArrayHead("size", "count")
           \o <<FConst("MATRIX", ConstStr(S_MATRIX)),
                FArray("matrices", "count", 0 - 1, "bwx_matrix2_struct.matrices")>>
      [] kind = "bwx_matrix2_struct.matrices" ->
           <<FConst("type", <<224>>), Fld("timeline", "Int32ul"), FFloats("matrix", 16),
             FFloats("unknown", 7)>>
      [] kind = "bwx_meshf_struct" ->
           ArrayHead("size", "count")
           \o <<FConst("MESHF", ConstStr(S_MESHF)), FValue("timeline")>>
           \o ArrayHead("size", "vertex_count")
           \o <<FArray("vertex_buffer", "vertex_count", 0, "bwx_value")>>
           \o ArrayHead("size", "uv_count")
           \o <<FArray("uv_buffer", "uv_count", 0, "bwx_value")>>
      [] kind = "bwx_mesh_struct" ->
           ArrayHead("size", "count")
           \o <<FConst("MESH", ConstStr(S_MESH))>>
           \o ArrayHead("sub_size", "sub_count")
           \o <<FArray("sub_mesh", "sub_count", 0, "bwx_meshf_struct")>>
           \o ArrayHead("sub_material_size", "sub_material_count")
           \o <<FArray("sub_material", "sub_material_count", 0, "bwx_value")>>
           \o ArrayHead("size", "index_count")
           \o <<FArray("index_buffer", "index_count", 0, "bwx_value"),
                FValue("unknown1"), FValue("unknown2"), FValue("unknown3"),
                FValue("unknown_20")>>
      [] kind = "bwx_dx_meshf_struct" ->
           ArrayHead("size", "count")
           \o <<FConst("DXMESHF", ConstStr(S_DXMESHF)), FValue("timeline"),
                FValue("vertex_type"), FValue("vertex_count"), FValue("vertex_size"),
                FValue("vertex_buffer")>>
      [] kind = "bwx_dx_mesh_struct" ->
           ArrayHead("size", "count")
           \o <<FConst("DXMESH", ConstStr(S_DXMESH)), FValue("sub_material")>>
           \o ArrayHead("sub_size", "sub_count")
           \o <<FArray("sub_mesh", "sub_count", 0, "bwx_dx_meshf_struct"),
                FValue("index_count"), FValue("index_buffer")>>
      [] kind = "bwx_object_struct" ->
           ArrayHead("size", "count")
           \o <<FArray("object", "count", 0, "bwx_object_struct.object")>>
      [] kind = "bwx_dx_object_struct" ->
           ArrayHead("size", "count")
           \o <<FArray("object", "count", 0, "bwx_dx_object_struct.object")>>
      [] kind \in {"bwx_object_struct.object", "bwx_dx_object_struct.object"} ->
           ArrayHead("size", "count")
           \o <<IF kind = "bwx_object_struct.object"
                THEN FConst("OBJ2", ConstStr(S_OBJ2))
                ELSE FConst("DXOBJ", ConstStr(S_DXOBJ)),
                FValue("name"), FValue("unknown1"), FValue("material"),
                FValue("unknown2"), FValue("unknown3"),
                FSub("direction", "bwx_direction")>>
           \o ArrayHead("mesh_size", "mesh_count")
           \o <<FArray("mesh", "mesh_count", 0,
                       IF kind = "bwx_object_struct.object" THEN "bwx_mesh_struct"
                       ELSE "bwx_dx_mesh_struct")>>
           \o ArrayHead("matrix_size", "matrix_count")
           \o <<FArray("matrix", "matrix_count", 0,
                       IF kind = "bwx_object_struct.object" THEN "bwx_matrix_struct"
                       ELSE "bwx_matrix2_struct"),
                FValue("sfx"), FIf("whatisthis", "count", 10, "bwx_value")>>
      [] kind = "bwx_camera_matrix_struct" ->
           <<FConst("B", <<66>>), Fld("size", "VarInt"), Fld("timeline", "Int32ul"),
             FFloats("camera", 16), FFloats("target", 16), FFloats("unknown1", 3),
             FFloats("unknown2", 3)>>
      [] kind = "bwx_camera_struct" ->
           ArrayHead("size", "count")
           \o <<FArray("camera", "count", 0, "bwx_camera_struct.camera")>>
      [] kind = "bwx_camera_struct.camera" ->
           ArrayHead("size", "cam_count")
           \o <<FConst("CAM", ConstStr(S_CAM)), FValue("name"),
                FConst("CAMR", ConstCAMR), FValue("unknown"),
                FArray("matrix", "cam_count", 0 - 4, "bwx_camera_matrix_struct")>>
      [] kind = "bwx_main_block_struct" ->
           <<FCString("name", "utf-8"), Fld("data", "Switch")>>

(* The Switch of bwx_main_block_struct: the declaration for a block name   *)
(* (bwx_value for every name it does not list).                            *)
BlockDecl(name) ==
    IF name = S_0 THEN "bwx_0_struct"
    ELSE IF name = S_HEAD THEN "bwx_header_struct"
    ELSE IF name = S_MTRL THEN "bwx_material_struct"
    ELSE IF name \in {S_OBJ2, S_OBJECT} THEN "bwx_object_struct"
    ELSE IF name = S_CAM THEN "bwx_camera_struct"
    ELSE IF name \in {S_DXOBJ, S_SPOB} THEN "bwx_dx_object_struct"
    ELSE "bwx_value"

(* The Computed field "value" of bwx_value: the type itself below 0x20,    *)
(* the data otherwise.                                                     *)
Computed(ty, d) ==
    [c |-> d.c, v |-> IF ~Ok(d.c) THEN PyNone ELSE IF ty < 32 THEN PyInt(ty) ELSE d.v]

(* The Container of a parsed bwx_array as a value.                         *)
ArrayValue(r) ==
    [c |-> r.c, v |-> IF Ok(r.c) THEN PyArr(r.v.size, r.v.count, r.v.data) ELSE PyNone]

(* The list of entries of a parsed bwx_darray as a value.                  *)
ListValue(r) == [c |-> r.c, v |-> IF Ok(r.c) THEN PyList(r.v.data) ELSE PyNone]

(* Parse(kind, s, c) parses one record of the declaration named kind at    *)
(* cursor c of stream s; Struct parses the fields fs[i..] in order into    *)
(* the Container ctx; Array is construct's Array(count, subcon), which     *)
(* raises RangeError for a negative count.  Both loops run their items in  *)
(* order, a first part then the rest, and stop at the first failure.       *)
RECURSIVE Parse(_, _, _)
RECURSIVE Struct(_, _, _, _, _)
RECURSIVE StructRange(_, _, _, _, _)
RECURSIVE ArrayLoop(_, _, _, _)

(* The list after the element parsed with result h was appended.           *)
ArrayStep(acc, h) == [c |-> h.c, v |-> Append(acc, h.v)]

(* The next n >= 1 elements after those parsed with result r (cursor r.c, *)
(* list r.v), none when one of those failed.                               *)
ArrayLoop(kind, s, n, r) ==
    CASE r.c.e # "" -> r
      [] r.c.e = "" /\ n = 1 -> ArrayStep(r.v, Parse(kind, s, r.c))
      [] OTHER -> ArrayLoop(kind, s, n - (n + 2) \div 4,
                            ArrayLoop(kind, s, (n + 2) \div 4, r))

Array(kind, s, c, n) ==
    CASE n < 0 -> [c |-> Fail(c, "RangeError"), v |-> <<>>]
      [] n = 0 -> [c |-> c, v |-> <<>>]
      [] OTHER -> ArrayLoop(kind, s, n, [c |-> c, v |-> <<>>])

(* Variant of bwx_array, see bwx_array_fields_NoSubtract.                  *)
bwx_array_NoSubtract(s, c) == ArrayValue(Struct(s, c, bwx_array_fields_NoSubtract, 1, <<>>))

(* bwx_array, signature A: size, count, data of size - sizeof(count)       *)
(* bytes, sizeof(count) being PackedInt.length as the count just parsed    *)
(* left it.                                                                *)
bwx_array(s, c) == ArrayValue(Struct(s, c, bwx_array_fields, 1, <<>>))

(* bwx_darray, signature D.                                                *)
bwx_darray(s, c) == ListValue(Struct(s, c, Decl("bwx_darray"), 1, <<>>))

(* The data of a bwx_value of type ty (the IfThenElse and the Switch; a    *)
(* type the Switch does not list parses nothing and yields None).          *)
bwx_value_data(s, c, ty) ==
    CASE ty > 128 ->
           LET d == stream_read(s, c, ty % 128) IN [c |-> d.c, v |-> PyBytes(d.v)]
      [] ty = 65 -> bwx_array(s, c)
      [] ty = 66 ->
           LET d == Prefixed(s, c) IN [c |-> d.c, v |-> PyBytes(d.v)]
      [] ty = 67 ->
           LET d == stream_read(s, c, 1) IN
           [c |-> d.c, v |-> PyInt(IF Ok(d.c) THEN 0 - d.v[1] ELSE 0)]
      [] ty = 68 -> bwx_darray(s, c)
      [] ty = 70 ->
           LET d == stream_read(s, c, 4) IN
           [c |-> d.c, v |-> IF Ok(d.c) THEN PyFloat(F32_parse(d.v)) ELSE PyNone]
      [] ty = 72 ->
           LET d == stream_read(s, c, 2) IN
           [c |-> d.c, v |-> PyInt(IF Ok(d.c) THEN 0 - U16(d.v) ELSE 0)]
      [] ty = 73 ->
           LET d == stream_read(s, c, 4) IN
           [c |-> d.c, v |-> PyInt(IF Ok(d.c) THEN I32(d.v) ELSE 0)]
      [] ty = 83 -> PrefixedCString(s, c, FALSE)
      [] ty = 87 ->
           LET d == Int16ul(s, c) IN [c |-> d.c, v |-> PyInt(d.v)]
      [] ty = 89 ->
           LET d == stream_read(s, c, 1) IN
           [c |-> d.c, v |-> PyInt(IF Ok(d.c) THEN d.v[1] ELSE 0)]
      [] OTHER -> [c |-> c, v |-> PyNone]

(* bwx_value after its type byte t was read.                               *)
TypeOf(t) == IF Ok(t.c) THEN t.v[1] ELSE 0
bwx_value_typed(s, t) == Computed(TypeOf(t), bwx_value_data(s, t.c, TypeOf(t)))

(* bwx_value: v is the Computed field "value".                             *)
bwx_value(s, c) == bwx_value_typed(s, stream_read(s, c, 1))

(* The count field of bwx_array and bwx_darray: the number, and the value  *)
(* PackedInt._parse leaves in self.length.                                 *)
PackedInt_field(r) == [c |-> r.c, v |-> WToNat(r.v), length |-> r.length]

(* One field f of a Struct whose Container so far is ctx.                  *)
Field(s, c, f, ctx) ==
    CASE f.t = "Const" -> [c |-> Const(s, c, f.b), v |-> f.b]
      [] f.t = "VarInt" -> VarInt_parse(s, c)
      [] f.t = "PackedInt" -> PackedInt_field(PackedInt_parse(s, c))
      [] f.t = "Int16ul" -> Int16ul(s, c)
      [] f.t = "Int32ul" -> Int32ul(s, c)
      [] f.t = "Float32l" -> FloatArray(s, c, f.d)
      [] f.t = "CString" -> PrefixedCString(s, c, f.of = "utf-8")
      [] f.t = "Bytes" -> stream_read(s, c, ctx.size - ctx.sizeof_count)
      [] f.t = "BytesOfSize" -> stream_read(s, c, ctx.size)
      [] f.t = "Array" -> Array(f.of, s, c, ctx[f.by] + f.d)
      [] f.t = "If" -> IF ctx[f.by] > f.d THEN Parse(f.of, s, c)
                       ELSE [c |-> c, v |-> PyNone]
      [] f.t = "Sub" -> Parse(f.of, s, c)
      [] f.t = "Switch" -> Parse(BlockDecl(ctx.name.b), s, c)

(* The Container after field f was parsed with result r.                   *)
Put(ctx, f, r) ==
    IF f.t = "PackedInt" THEN (f.n :> r.v) @@ ("sizeof_count" :> r.length) @@ ctx
    ELSE (f.n :> r.v) @@ ctx

(* The Container and the cursor after field f was parsed with result r.    *)
StructStep(ctx, f, r) == [c |-> r.c, v |-> Put(ctx, f, r)]

(* The fields fs[lo..hi], lo <= hi, after those parsed with result r       *)
(* (cursor r.c, Container r.v), none when one of those failed.             *)
StructRange(s, fs, lo, hi, r) ==
    CASE r.c.e # "" -> r
      [] r.c.e = "" /\ lo = hi -> StructStep(r.v, fs[lo], Field(s, r.c, fs[lo], r.v))
      [] OTHER -> StructRange(s, fs, lo + (hi - lo) \div 4 + 1, hi,
                              StructRange(s, fs, lo, lo + (hi - lo) \div 4, r))

Struct(s, c, fs, i, ctx) ==
    IF i > Len(fs) THEN [c |-> c, v |-> ctx]
    ELSE StructRange(s, fs, i, Len(fs), [c |-> c, v |-> ctx])

Parse(kind, s, c) ==
    CASE kind = "bwx_value" -> bwx_value(s, c)
      [] kind = "bwx_array" -> bwx_array(s, c)
      [] OTHER -> StructRange(s, Decl(kind), 1, Len(Decl(kind)), [c |-> c, v |-> <<>>])

(* Variant: the trailing signature is not verified.                        *)
bwx_struct_NoEnding(s) == Struct(s, Cur(0), SubSeq(bwx_struct_fields, 1, 4), 1, <<>>)

(* bwx_struct.parse(content): c.e is the exception raised, "" when the     *)
(* parse succeeds; v is the Container, v.block the list of parsed blocks.  *)
bwx_struct(s) == Struct(s, Cur(0), bwx_struct_fields, 1, <<>>)

(* Index in block of the first block named name, 0 when there is none.     *)
RECURSIVE BlockIndex(_, _, _)
BlockIndex(block, name, i) ==
    IF i > Len(block) THEN 0
    ELSE IF block[i].name.b = name THEN i
    ELSE BlockIndex(block, name, i + 1)

(* get_block(bwx, name) is not None.                                       *)
has_block(bwx, name) == BlockIndex(bwx.block, name, 1) # 0

(* get_block(bwx, name): the data of the first block of that name.         *)
get_block(bwx, name) == bwx.block[BlockIndex(bwx.block, name, 1)].data

----------------------------------------------------------------------------
(* The importer (bwx_io.py).  A step that can raise returns e, the kind of *)
(* the exception ("" when none), beside its result.                        *)

(* constants.BYPASS_OBJECT_PREFIXES: 'EV_', 'EP_', '@', 'SFX', 'billboard' *)
BYPASS_OBJECT_PREFIXES ==
    <<<<69, 86, 95>>, <<69, 80, 95>>, <<64>>, <<83, 70, 88>>, <<98, 105, 108, 108, 98, 111, 97, 114, 100>>>>

(* any(name.startswith(prefix) for prefix in BYPASS_OBJECT_PREFIXES)       *)
IsBypass(name) ==
    \E i \in 1..Len(BYPASS_OBJECT_PREFIXES) : IsPrefix(BYPASS_OBJECT_PREFIXES[i], name)

(* The direction tags as Int32ul bytes.                                    *)
MNHX == <<88, 72, 78, 77>>
MSHX == <<88, 72, 83, 77>>

(* obj_direction_is_mshx(obj): obj.direction.value == 'MSHX', and False    *)
(* when obj has no attribute direction (the AttributeError is caught).     *)
obj_direction_is_mshx(obj) ==
    IF "direction" \in DOMAIN obj THEN obj.direction.value = I32(MSHX) ELSE FALSE

(* zip(indices, indices, indices) with the flip applied.                   *)
Faces(indices, flip) ==
    [j \in 1..(Len(indices) \div 3) |->
        IF flip THEN <<indices[3 * j - 2], indices[3 * j], indices[3 * j - 1]>>
        ELSE <<indices[3 * j - 2], indices[3 * j - 1], indices[3 * j]>>]

(* Array(n, Float32l).parse(v): v must be a bytes object of 4n bytes or    *)
(* more (None reads as an empty stream).                                   *)
FloatsOfOk(v, n) == v.k = "bytes" /\ Len(v.b) >= 4 * n
FloatsOfErr(v) == IF v.k \in {"bytes", "none"} THEN "StreamError" ELSE "TypeError"
FloatsOf(v, n) == Floats(SubSeq(v.b, 1, 4 * n))

(* Index of the first element of vs that is not n floats, 0 when none.     *)
RECURSIVE FirstBadFloats(_, _, _)
FirstBadFloats(vs, n, i) ==
    IF i > Len(vs) THEN 0
    ELSE IF FloatsOfOk(vs[i], n) THEN FirstBadFloats(vs, n, i + 1) ELSE i

MeshData(timeline, sub_material, positions, normals, tex_coords, faces) ==
    [timeline |-> timeline, sub_material |-> sub_material, positions |-> positions,
     normals |-> normals, tex_coords |-> tex_coords, faces |-> faces]

NoMesh == MeshData(PyNone, PyNone, <<>>, <<>>, <<>>, <<>>)

(* BWXImporter._parse_v1_mesh(m, sm) *)
parse_v1_mesh(m, sm) ==
    LET bp == FirstBadFloats(sm.vertex_buffer, 3, 1)
        bu == FirstBadFloats(sm.uv_buffer, 2, 1)
        flip == obj_direction_is_mshx(m)
    IN  IF m.sub_material = <<>> THEN [e |-> "IndexError", v |-> NoMesh]
        ELSE IF bp # 0 THEN [e |-> FloatsOfErr(sm.vertex_buffer[bp]), v |-> NoMesh]
        ELSE IF bu # 0 THEN [e |-> FloatsOfErr(sm.uv_buffer[bu]), v |-> NoMesh]
        ELSE [e |-> "",
              v |-> MeshData(sm.timeline, m.sub_material[1],
                       [i \in 1..Len(sm.vertex_buffer) |-> FloatsOf(sm.vertex_buffer[i], 3)],
                       <<>>,
                       [i \in 1..Len(sm.uv_buffer) |-> FloatsOf(sm.uv_buffer[i], 2)],
                       Faces(m.index_buffer, flip))]

(* Array(count, subcon).parse(buf) for a subcon of unit bytes: the         *)
(* exception raised, "" when count is an int >= 0 and buf holds the bytes. *)
ArrayParseErr(count, buf, unit) ==
    IF count.k # "int" THEN "TypeError"
    ELSE IF count.i < 0 THEN "RangeError"
    ELSE IF buf.k \notin {"bytes", "none"} THEN "TypeError"
    ELSE IF Len(buf.b) < unit * count.i THEN "StreamError"
    ELSE ""

(* Array(count, Int16ul).parse(buf) *)
U16Array(buf, count) == [j \in 1..count |-> PyInt(U16(SubSeq(buf, 2 * j - 1, 2 * j)))]

(* Variant: the two trailing dummy vertices are always kept.               *)
ActualVertexCount_KeepDummies(n) == n

(* len(vertex_buffer) - 2 if len(vertex_buffer) > 2 else len(vertex_buffer) *)
ActualVertexCount(n) == IF n > 2 THEN n - 2 ELSE n

(* Variant: the normals are taken from the whole vertex buffer, the two    *)
(* trailing dummy vertices included.                                       *)
parse_v2_mesh_AllNormals(m, sm) ==
    LET ve == ArrayParseErr(sm.vertex_count, sm.vertex_buffer, 32)
        ie == ArrayParseErr(m.index_count, m.index_buffer, 2)
        n == ActualVertexCount(sm.vertex_count.i)
        rec(i) == Floats(SubSeq(sm.vertex_buffer.b, 32 * i - 31, 32 * i))
        flip == obj_direction_is_mshx(m)
    IN  IF ve # "" THEN [e |-> ve, v |-> NoMesh]
        ELSE IF ie # "" THEN [e |-> ie, v |-> NoMesh]
        ELSE [e |-> "",
              v |-> MeshData(sm.timeline, m.sub_material,
                       [i \in 1..n |-> SubSeq(rec(i), 1, 3)],
                       [i \in 1..sm.vertex_count.i |-> SubSeq(rec(i), 4, 6)],
                       [i \in 1..n |-> <<rec(i)[7], FlipV(rec(i)[8])>>],
                       Faces(U16Array(m.index_buffer.b, m.index_count.i), flip))]

(* BWXImporter._parse_v2_mesh(m, sm) *)
parse_v2_mesh(m, sm) ==
    LET ve == ArrayParseErr(sm.vertex_count, sm.vertex_buffer, 32)
        ie == ArrayParseErr(m.index_count, m.index_buffer, 2)
        n == ActualVertexCount(sm.vertex_count.i)
        rec(i) == Floats(SubSeq(sm.vertex_buffer.b, 32 * i - 31, 32 * i))
        flip == obj_direction_is_mshx(m)
    IN  IF ve # "" THEN [e |-> ve, v |-> NoMesh]
        ELSE IF ie # "" THEN [e |-> ie, v |-> NoMesh]
        ELSE [e |-> "",
              v |-> MeshData(sm.timeline, m.sub_material,
                       [i \in 1..n |-> SubSeq(rec(i), 1, 3)],
                       [i \in 1..n |-> SubSeq(rec(i), 4, 6)],
                       [i \in 1..n |-> <<rec(i)[7], FlipV(rec(i)[8])>>],
                       Faces(U16Array(m.index_buffer.b, m.index_count.i), flip))]

(* BWXImporter._parse_meshes(obj): the pairs (m, sm) in order.             *)
MeshPairs(obj) ==
    Flatten([i \in 1..Len(obj.mesh) |->
        [j \in 1..Len(obj.mesh[i].sub_mesh) |-> <<i, j>>]])

RECURSIVE FirstMeshErr(_, _)
FirstMeshErr(rs, i) ==
    IF i > Len(rs) THEN "" ELSE IF rs[i].e # "" THEN rs[i].e ELSE FirstMeshErr(rs, i + 1)

(* The meshes parsed, and the first exception raised among them.           *)
MeshResults(rs) == [e |-> FirstMeshErr(rs, 1), v |-> [k \in 1..Len(rs) |-> rs[k].v]]

parse_mesh(m, sm, version) ==
    IF version = 1 THEN parse_v1_mesh(m, sm) ELSE parse_v2_mesh(m, sm)

parse_mesh_pairs(obj, version, ps) ==
    MeshResults([k \in 1..Len(ps) |->
        parse_mesh(obj.mesh[ps[k][1]], obj.mesh[ps[k][1]].sub_mesh[ps[k][2]], version)])

parse_meshes(obj, version) == parse_mesh_pairs(obj, version, MeshPairs(obj))

(* BWXImporter._parse_matrices(obj): the frames of the first group only.   *)
parse_matrices(obj) == IF obj.matrix = <<>> THEN <<>> ELSE obj.matrix[1].matrices

(* The directory of the imported file (self._filepath.parent), as the      *)
(* model's one directory "/d".                                             *)
ParentDir == <<47, 100>>

(* pathlib.PureWindowsPath(x).name: the part after the last '\' or '/'.    *)
WindowsName(cps) == SubSeq(cps, LastIndexIn(cps, {92, 47}, Len(cps)) + 1, Len(cps))

(* pathlib.Path(x).name on POSIX: the part after the last '/'.             *)
PosixName(cps) == SubSeq(cps, LastIndexIn(cps, {47}, Len(cps)) + 1, Len(cps))

(* str(texture_path.joinpath(name).resolve()) *)
JoinParent(name) == IF name = <<>> THEN ParentDir ELSE ParentDir \o <<47>> \o name

SubMaterialData(diffuse, ambient, specular, highlight, texture_path) ==
    [diffuse |-> diffuse, ambient |-> ambient, specular |-> specular,
     highlight |-> highlight, texture_path |-> texture_path]

(* if sm.texture: a parsed bwx_texture_struct is truthy, the None of an    *)
(* If that did not parse is not.                                           *)
HasTexture(sm) == "filename" \in DOMAIN sm.texture

(* Variant: a texture path is set for every sub-material.                  *)
sub_material_data_AlwaysTexture(sm) ==
    SubMaterialData(sm.diffuse, sm.ambient, sm.specular, sm.highlight,
        PyStr(JoinParent(WindowsName(IF HasTexture(sm) THEN sm.texture.filename.b
                                     ELSE <<>>))))

(* The SubMaterialData built from one parsed sub-material record.          *)
sub_material_data(sm) ==
    SubMaterialData(sm.diffuse, sm.ambient, sm.specular, sm.highlight,
        IF HasTexture(sm)
        THEN PyStr(JoinParent(WindowsName(sm.texture.filename.b)))
        ELSE PyNone)

(* The loop of BWXImporter._parse_materials over mtrl.material: acc is     *)
(* self._data.materials; a texture filename that is no str raises.         *)
RECURSIVE parse_materials_loop(_, _, _)
parse_materials_loop(ms, i, acc) ==
    IF i > Len(ms) THEN [e |-> "", v |-> acc]
    ELSE LET m == ms[i]
             bad == \E j \in 1..Len(m.sub_material) :
                       HasTexture(m.sub_material[j])
                       /\ m.sub_material[j].texture.filename.k # "str"
         IN  IF bad THEN [e |-> "TypeError", v |-> acc]
             ELSE parse_materials_loop(ms, i + 1,
                    Append(acc, [name |-> m.material_name,
                                 sub_materials |->
                                    [j \in 1..Len(m.sub_material) |->
                                        sub_material_data(m.sub_material[j])]]))

(* BWXImporter._parse_materials(bwx) *)
parse_materials(bwx, acc) ==
    IF ~has_block(bwx, S_MTRL) THEN [e |-> "", v |-> acc]
    ELSE parse_materials_loop(get_block(bwx, S_MTRL).material, 1, acc)

(* Variant: no object is skipped.                                          *)
SkipObject_Never(name) == FALSE

(* "Skip bypass objects": the continue of _parse_objects.                  *)
SkipObject(name) == IsBypass(name)

(* The loop of BWXImporter._parse_objects over model.object: acc is        *)
(* self._data.objects.                                                     *)
RECURSIVE parse_objects_loop(_, _, _, _)

(* The body of the loop for object o once it is not skipped, meshes being  *)
(* the result of _parse_meshes(o).                                         *)
parse_object(os, i, version, acc, o, meshes) ==
    IF meshes.e # "" THEN [e |-> meshes.e, v |-> acc]
    ELSE parse_objects_loop(os, i + 1, version,
           Append(acc, [name |-> o.name, material_index |-> o.material,
                        meshes |-> meshes.v, matrices |-> parse_matrices(o)]))

parse_objects_loop(os, i, version, acc) ==
    IF i > Len(os) THEN [e |-> "", v |-> acc]
    ELSE IF os[i].name.k # "str" THEN
        [e |-> IF os[i].name.k = "bytes" THEN "TypeError" ELSE "AttributeError",
         v |-> acc]
    ELSE IF SkipObject(os[i].name.b) THEN parse_objects_loop(os, i + 1, version, acc)
    ELSE parse_object(os, i, version, acc, os[i], parse_meshes(os[i], version))

(* Variant: the object block is chosen without regard to the version.      *)
ObjectBlockName_AlwaysOBJ2(version) == S_OBJ2

(* The block name _parse_objects looks up.                                 *)
ObjectBlockName(version) == IF version = 1 THEN S_OBJ2 ELSE S_SPOB

(* BWXImporter._parse_objects(bwx) *)
parse_objects(bwx, version, acc) ==
    IF ~has_block(bwx, ObjectBlockName(version)) THEN [e |-> "", v |-> acc]
    ELSE parse_objects_loop(get_block(bwx, ObjectBlockName(version)).object, 1, version, acc)

(* BWXImporter._parse_cameras(bwx); nothing in it raises.                  *)
parse_cameras(bwx, acc) ==
    IF ~has_block(bwx, S_CAM) THEN acc
    ELSE LET cs == get_block(bwx, S_CAM).camera IN
         acc \o [i \in 1..Len(cs) |->
                   [name |-> cs[i].name,
                    matrices |-> [j \in 1..Len(cs[i].matrix) |->
                                    [timeline |-> cs[i].matrix[j].timeline,
                                     matrix |-> cs[i].matrix[j].camera]]]]

BWXData(materials, objects, cameras) ==
    [materials |-> materials, objects |-> objects, cameras |-> cameras]

EmptyData == BWXData(<<>>, <<>>, <<>>)

(* str(head.version) as the dialect: 1 for 'SLv1' (0x0500), 2 for 'SLv2'   *)
(* (0x0602), 0 for any other value.                                        *)
VersionOf(v) == IF v = 5 * 256 THEN 1 ELSE IF v = 6 * 256 + 2 THEN 2 ELSE 0

(* Variant: a missing HEAD block is taken for a v1 header.                 *)
HeadMissing_Tolerated(bwx) == FALSE

(* head is None *)
HeadMissing(bwx) == ~has_block(bwx, S_HEAD)

(* BWXImporter._parse(content) run on an importer whose _data is d and     *)
(* whose _sl_version is ver: the exception it raises (e, with the stream   *)
(* position at), and the importer's fields when it returns or raises.      *)
(* The three "Parse all sections" calls, mats and objs being the results  *)
(* of _parse_materials and _parse_objects.                                 *)
parse_sections(bwx, d, version, mats, objs) ==
    IF mats.e # "" THEN
        [e |-> mats.e, at |-> 0, sl_version |-> version,
         data |-> BWXData(mats.v, d.objects, d.cameras)]
    ELSE IF objs.e # "" THEN
        [e |-> objs.e, at |-> 0, sl_version |-> version,
         data |-> BWXData(mats.v, objs.v, d.cameras)]
    ELSE [e |-> "", at |-> 0, sl_version |-> version,
          data |-> BWXData(mats.v, objs.v, parse_cameras(bwx, d.cameras))]

(* _parse from "Determine version" on, version being the dialect of the    *)
(* header.                                                                 *)
parse_versioned(bwx, d, ver, version) ==
    IF version = 0 THEN
        [e |-> "UnsupportedVersion", at |-> 0, sl_version |-> ver, data |-> d]
    ELSE parse_sections(bwx, d, version, parse_materials(bwx, d.materials),
                        parse_objects(bwx, version, d.objects))

(* _parse after bwx_struct.parse(content) returned r.                      *)
parse_container(r, d, ver) ==
    IF r.c.e # "" THEN [e |-> r.c.e, at |-> r.c.p, sl_version |-> ver, data |-> d]
    ELSE IF HeadMissing(r.v) THEN
        [e |-> "MissingHead", at |-> 0, sl_version |-> ver, data |-> d]
    ELSE parse_versioned(r.v, d, ver,
            IF has_block(r.v, S_HEAD) THEN VersionOf(get_block(r.v, S_HEAD).version)
            ELSE 1)

Importer_parse(s, d, ver) == parse_container(bwx_struct(s), d, ver)

----------------------------------------------------------------------------
(* The writer (bwx_writer.py).  Every builder returns the bytes it builds; *)
(* an exception is the poison byte of BuildError in them.                  *)

Cat(parts) == FlattenRange(parts, 1, Len(parts))

(* struct.pack('<I', n) and struct.pack('<H', n) of a model integer;       *)
(* struct.error outside the format's range.                                *)
PackU32(n) ==
    IF n < 0 THEN BuildError
    ELSE <<n % 256, (n \div 256) % 256, (n \div 65536) % 256, n \div (2^24)>>
PackU16(n) ==
    IF n < 0 \/ n > 65535 THEN BuildError ELSE <<n % 256, n \div 256>>

(* struct.pack('<I', hi * 2^31 + lo) for 0 <= lo < 2^31.                   *)
PackU32Hi(hi, lo) ==
    IF hi < 0 \/ hi > 1 \/ lo < 0 THEN BuildError
    ELSE <<lo % 256, (lo \div 256) % 256, (lo \div 65536) % 256, lo \div (2^24) + 128 * hi>>

(* struct.pack('<nf', *xs) for a sequence of exactly n floats.             *)
PackFloats(xs, n) ==
    IF Len(xs) # n THEN BuildError ELSE Cat([i \in 1..Len(xs) |-> F32_pack(xs[i])])

(* _build_varint(len(encoded)) + encoded *)
LenPrefixed(encoded) == VarIntOf(Len(encoded)) \o encoded

(* _build_prefixed_string(s): utf-8, NUL-terminated, length-prefixed.      *)
build_prefixed_string(cps) == LenPrefixed(EncodeUtf8(cps) \o <<0>>)

(* _build_bwx_value_int(value): 0x49 and struct.pack('<I', value).         *)
build_bwx_value_int(v) ==
    IF v.k # "int" THEN BuildError
    ELSE <<73>> \o (IF v.x = 0 THEN PackU32(v.i) ELSE PackU32Hi(v.x, v.i))

(* Variant: every value below 128 is written as its own byte.              *)
build_bwx_value_compact_int_Below128(v) ==
    IF v.k # "int" THEN BuildError
    ELSE IF 0 <= v.i /\ v.i < 128 THEN <<v.i>>
    ELSE IF 0 <= v.i /\ v.i <= 255 THEN <<89, v.i>>
    ELSE IF 0 <= v.i /\ v.i <= 65535 THEN <<87>> \o PackU16(v.i)
    ELSE <<73>> \o PackU32(v.i)

(* _build_bwx_value_compact_int(value) *)
build_bwx_value_compact_int(v) ==
    IF v.k # "int" THEN BuildError
    ELSE IF 0 <= v.i /\ v.i < 32 THEN <<v.i>>
    ELSE IF 0 <= v.i /\ v.i <= 255 THEN <<89, v.i>>
    ELSE IF 0 <= v.i /\ v.i <= 65535 THEN <<87>> \o PackU16(v.i)
    ELSE <<73>> \o PackU32(v.i)

(* _build_bwx_value_string(value): 0x53, euc-kr, NUL-terminated.           *)
build_bwx_value_string(v) ==
    IF v.k # "str" THEN BuildError
    ELSE <<83>> \o LenPrefixed(EncodeEucKr(v.b) \o <<0>>)

(* _build_bwx_value_float(value) *)
build_bwx_value_float(d) == <<70>> \o F32_pack(d)

(* _build_bwx_value_data(data) *)
build_bwx_value_data(bs) == <<66>> \o VarIntOf(Len(bs)) \o bs

(* _build_bwx_value_block(data) *)
build_bwx_value_block(bs) ==
    IF Len(bs) > 127 THEN build_bwx_value_data(bs) ELSE <<128 + Len(bs)>> \o bs

(* 'A' + varint(size) + varint(count) + body, the shape of every Array     *)
(* record the writer emits (body is built first: an exception raised       *)
(* while building it leaves nothing else built).                           *)
WArray(size, count, body) ==
    IF Poisoned(body) THEN BuildError
    ELSE Cat(<<<<65>>, VarIntOf(size), VarIntOf(count), body>>)

(* The same with the size the writer computes: len(body) + extra.          *)
SizedArray(extra, count, body) ==
    IF \E i \in 1..Len(body) : body[i] < 0 THEN BuildError
    ELSE WArray(Len(body) + extra, count, body)

(* _build_block_0 *)
build_block_0 == build_prefixed_string(S_0) \o build_bwx_value_string(PyStr(S_SLBWX))

(* _build_head_block: DEFAULT_VERSION_SLV1 = 0x0500 for version 1,         *)
(* DEFAULT_VERSION_SLV2 = 0x0602 otherwise; DEFAULT_FILE_TYPE = 1.         *)
build_head_block(version) ==
    build_prefixed_string(S_HEAD)
    \o SizedArray(10, 5,
          Cat(<<build_bwx_value_string(PyStr(S_PNX)),
                build_bwx_value_string(PyStr(S_PNXDESC)),
                ConstPNX, <<87>>,
                PackU16(IF version = 1 THEN 5 * 256 ELSE 6 * 256 + 2),
                build_bwx_value_int(PyInt(1))>>))

(* int(c * 255) of one colour component.                                   *)
Component(c) ==
    IF c.e >= 0 THEN c.m * 255 * (2^c.e)
    ELSE (IF c.m < 0 THEN 0 - 1 ELSE 1) * ((Abs(c.m) * 255) \div (2^(0 - c.e)))

(* _build_bwx_value_int(_color_to_int(color)): len(color) raises TypeError *)
(* for the int the importer stores; for a tuple of 3 or 4 floats in 0..1   *)
(* the result is (a << 24) | (r << 16) | (g << 8) | b, whose bytes are     *)
(* b, g, r, a.  Other colour values do not occur in the model.             *)
build_color(color) ==
    IF color.k # "tuple" \/ Len(color.b) < 3 THEN BuildError
    ELSE LET r == Component(color.b[1])
             g == Component(color.b[2])
             b == Component(color.b[3])
             a == IF Len(color.b) >= 4 THEN Component(color.b[4]) ELSE 255
         IN  IF {r, g, b, a} \subseteq 0..255 THEN <<73, b, g, r, a>> ELSE BuildError

(* sm.highlight[0] if sm.highlight else 0.0, packed as a bwx_value float.  *)
build_highlight(h) ==
    IF h.k = "none" \/ (h.k \in {"int", "float"} /\ h.i = 0)
       \/ (h.k \in {"tuple", "str", "bytes"} /\ h.b = <<>>)
    THEN build_bwx_value_float(Dy(0, 0))
    ELSE IF h.k = "tuple" THEN build_bwx_value_float(h.b[1])
    ELSE BuildError

(* _build_texture(texture_path) *)
build_texture(texture_path) ==
    IF texture_path.k # "str" THEN BuildError
    ELSE SizedArray(10, 3,
           Cat(<<build_bwx_value_string(PyStr(S_TEX)),
                 build_bwx_value_int(PyInt(0)),
                 build_bwx_value_string(PyStr(PosixName(texture_path.b)))>>))

(* if sm.texture_path: *)
Truthy(v) ==
    CASE v.k = "none" -> FALSE
      [] v.k \in {"int", "float"} -> v.i # 0
      [] v.k \in {"str", "bytes", "tuple", "list"} -> v.b # <<>>
      [] OTHER -> TRUE

(* _build_sub_material(sm) *)
build_sub_material(sm) ==
    SizedArray(10, IF Truthy(sm.texture_path) THEN 9 ELSE 8,
      Cat(<<build_bwx_value_string(PyStr(S_SUBMTRL)),
            build_color(sm.diffuse),
            build_color(sm.ambient),
            build_color(sm.specular),
            build_bwx_value_float(Dy(0, 0)),
            build_highlight(sm.highlight),
            build_bwx_value_int(PyInt(0)),
            build_bwx_value_int(PyInt(0)),
            IF Truthy(sm.texture_path) THEN build_texture(sm.texture_path) ELSE <<>> >>))

(* _build_material(mat) *)
build_material(mat) ==
    SizedArray(10, Len(mat.sub_materials) + 2,
      Cat(<<build_bwx_value_string(PyStr(S_MTRL)),
            build_bwx_value_string(mat.name),
            Cat([i \in 1..Len(mat.sub_materials) |->
                   build_sub_material(mat.sub_materials[i])])>>))

(* _build_mtrl_block *)
build_mtrl_block(d) ==
    build_prefixed_string(S_MTRL)
    \o SizedArray(10, Len(d.materials),
          Cat([i \in 1..Len(d.materials) |-> build_material(d.materials[i])]))

(* The keys of mesh_groups in insertion order: the distinct sub_material   *)
(* values of meshes, by first occurrence.                                  *)
RECURSIVE GroupKeys(_, _, _)
GroupKeys(meshes, i, acc) ==
    IF i > Len(meshes) THEN acc
    ELSE IF \E j \in 1..Len(acc) : acc[j] = meshes[i].sub_material
         THEN GroupKeys(meshes, i + 1, acc)
         ELSE GroupKeys(meshes, i + 1, Append(acc, meshes[i].sub_material))

(* mesh_groups[sub_mat] *)
GroupOf(meshes, sub_mat) == SelectSeq(meshes, LAMBDA m : m.sub_material = sub_mat)

(* A dict key must be hashable: a Container or a list is not.              *)
Hashable(v) == v.k \notin {"array", "list"}

(* _build_v1_mesh_frame(mesh) *)
build_v1_mesh_frame(mesh) ==
    SizedArray(10, 5,
      Cat(<<build_bwx_value_string(PyStr(S_MESHF)),
            build_bwx_value_int(mesh.timeline),
            SizedArray(10, Len(mesh.positions),
              Cat([i \in 1..Len(mesh.positions) |->
                     build_bwx_value_block(PackFloats(mesh.positions[i], 3))])),
            SizedArray(10, Len(mesh.tex_coords),
              Cat([i \in 1..Len(mesh.tex_coords) |->
                     build_bwx_value_block(PackFloats(mesh.tex_coords[i], 2))]))>>))

(* The index array of _build_v1_mesh: the indices of the faces as compact  *)
(* ints.                                                                   *)
build_v1_indices(faces) ==
    SizedArray(10, Len(faces) * 3,
      Cat([f \in 1..Len(faces) |->
             Cat([j \in 1..Len(faces[f]) |-> build_bwx_value_compact_int(faces[f][j])])]))

(* _build_v1_mesh(meshes, sub_material) *)
build_v1_mesh(meshes, sub_material) ==
    SizedArray(10, 10,
      Cat(<<build_bwx_value_string(PyStr(S_MESH)),
            SizedArray(10, Len(meshes),
              Cat([i \in 1..Len(meshes) |-> build_v1_mesh_frame(meshes[i])])),
            WArray(10, 1, build_bwx_value_compact_int(sub_material)),
            build_v1_indices(meshes[1].faces),
            <<0, 0, 0, 0>> >>))

(* The loop of _build_v1_meshes over mesh_groups, keys being its keys.     *)
build_v1_mesh_groups(meshes, keys) ==
    IF \E i \in 1..Len(meshes) : ~Hashable(meshes[i].sub_material)
    THEN BuildError
    ELSE SizedArray(10, Len(keys),
           Cat([g \in 1..Len(keys) |->
                  build_v1_mesh(GroupOf(meshes, keys[g]), keys[g])]))

(* _build_v1_meshes(obj) *)
build_v1_meshes(obj) == build_v1_mesh_groups(obj.meshes, GroupKeys(obj.meshes, 1, <<>>))

(* Variant: no dummy record is added.                                      *)
DummyRecords_None == <<>>

(* "Add 2 extra dummy vertices": EXTRA_VERTICES_SLV2 records of 8 zero     *)
(* floats.                                                                 *)
DummyRecords == Repeat(0, 2 * 32)

(* One 32-byte record of _build_v2_vertex_buffer: position, normal         *)
(* (default 0, 0, 1) and uv (default 0, 0) with the V coordinate flipped.  *)
build_v2_vertex(mesh, i) ==
    Cat(<<PackFloats(mesh.positions[i], 3),
          IF i <= Len(mesh.normals) /\ mesh.normals[i] # <<>>
          THEN PackFloats(mesh.normals[i], 3)
          ELSE <<0, 0, 0, 0, 0, 0, 0, 0, 0, 0, 128, 63>>,
          IF i <= Len(mesh.tex_coords) /\ mesh.tex_coords[i] # <<>>
          THEN IF Len(mesh.tex_coords[i]) < 2 THEN BuildError
               ELSE PackFloats(<<mesh.tex_coords[i][1],
                                 OneMinus(mesh.tex_coords[i][2])>>, 2)
          ELSE <<0, 0, 0, 0, 0, 0, 0, 0>> >>)

(* _build_v2_vertex_buffer(mesh) *)
build_v2_vertex_buffer(mesh) ==
    Cat([i \in 1..Len(mesh.positions) |-> build_v2_vertex(mesh, i)]) \o DummyRecords

(* _build_v2_mesh_frame(mesh): vertex type 0x15, EXTRA_VERTICES_SLV2 = 2,  *)
(* VERTEX_SIZE_SLV2 = 32.                                                  *)
build_v2_mesh_frame(mesh) ==
    SizedArray(10, 6,
      Cat(<<build_bwx_value_string(PyStr(S_DXMESHF)),
            build_bwx_value_int(mesh.timeline),
            build_bwx_value_int(PyInt(21)),
            build_bwx_value_int(PyInt(Len(mesh.positions) + 2)),
            build_bwx_value_int(PyInt(32)),
            build_bwx_value_data(build_v2_vertex_buffer(mesh))>>))

(* struct.pack('<H', idx) of one face index.                               *)
PackIndex(idx) == IF idx.k # "int" THEN BuildError ELSE PackU16(idx.i)

(* struct.pack(f'<{index_count}H', *indices), packed being the indices    *)
(* packed one by one: struct.error unless there are index_count of them.   *)
pack_indices(index_count, packed) ==
    IF Len(packed) # 2 * index_count THEN BuildError ELSE build_bwx_value_data(packed)

(* The index buffer of _build_v2_mesh.                                     *)
build_v2_indices(faces) ==
    pack_indices(Len(faces) * 3,
      Cat([f \in 1..Len(faces) |->
             Cat([j \in 1..Len(faces[f]) |-> PackIndex(faces[f][j])])]))

(* _build_v2_mesh(meshes, sub_material) *)
build_v2_mesh(meshes, sub_material) ==
    SizedArray(10, 6,
      Cat(<<build_bwx_value_string(PyStr(S_DXMESH)),
            build_bwx_value_int(sub_material),
            SizedArray(10, Len(meshes),
              Cat([i \in 1..Len(meshes) |-> build_v2_mesh_frame(meshes[i])])),
            build_bwx_value_int(PyInt(Len(meshes[1].faces) * 3)),
            build_v2_indices(meshes[1].faces)>>))

(* The loop of _build_v2_meshes over mesh_groups, keys being its keys.     *)
build_v2_mesh_groups(meshes, keys) ==
    IF \E i \in 1..Len(meshes) : ~Hashable(meshes[i].sub_material)
    THEN BuildError
    ELSE SizedArray(10, Len(keys),
           Cat([g \in 1..Len(keys) |->
                  build_v2_mesh(GroupOf(meshes, keys[g]), keys[g])]))

(* _build_v2_meshes(obj) *)
build_v2_meshes(obj) == build_v2_mesh_groups(obj.meshes, GroupKeys(obj.meshes, 1, <<>>))

(* One frame of _build_matrices.                                           *)
build_matrix_frame(mf, marker, include_unknown) ==
    Cat(<<marker, PackU32(mf.timeline),
          Cat([i \in 1..Len(mf.matrix) |-> F32_pack(mf.matrix[i])]),
          IF include_unknown THEN Repeat(0, 28) ELSE <<>> >>)

(* _build_matrices(obj, marker, include_unknown): the frames of obj as one *)
(* MATRIX group, or an empty array when obj has none.                      *)
build_matrices(obj, marker, include_unknown) ==
    IF obj.matrices = <<>> THEN WArray(10, 0, <<>>)
    ELSE SizedArray(0, 1,
           SizedArray(10, Len(obj.matrices) + 1,
             build_bwx_value_string(PyStr(S_MATRIX))
             \o Cat([i \in 1..Len(obj.matrices) |->
                       build_matrix_frame(obj.matrices[i], marker, include_unknown)])))

(* _build_v1_matrices / _build_v2_matrices: MATRIX_MARKER_SLV1 = 0xC4,     *)
(* MATRIX_MARKER_SLV2 = 0xE0.                                              *)
build_v1_matrices(obj) == build_matrices(obj, <<196>>, FALSE)
build_v2_matrices(obj) == build_matrices(obj, <<224>>, TRUE)

(* _determine_face_winding(obj): always DIRECTION_MNHX.                    *)
determine_face_winding(obj) == MNHX

(* The entry _build_v1_object(obj) and _build_v2_object(obj) build, for    *)
(* the direction tag given.                                                *)
build_object(obj, tag, direction, mesh_data, matrix_data) ==
    SizedArray(10, 10,
      Cat(<<build_bwx_value_string(PyStr(tag)),
            build_bwx_value_string(obj.name),
            <<0>>,
            build_bwx_value_compact_int(obj.material_index),
            <<0>>, <<0>>,
            <<73>>, direction,
            mesh_data, matrix_data, <<0>> >>))

build_v1_object(obj) ==
    build_object(obj, S_OBJ2, determine_face_winding(obj),
                 build_v1_meshes(obj), build_v1_matrices(obj))
build_v2_object(obj) ==
    build_object(obj, S_DXOBJ, determine_face_winding(obj),
                 build_v2_meshes(obj), build_v2_matrices(obj))

(* _build_obj2_block *)
build_obj2_block(d) ==
    build_prefixed_string(S_OBJ2)
    \o SizedArray(10, Len(d.objects),
          Cat([i \in 1..Len(d.objects) |-> build_v1_object(d.objects[i])]))

(* _build_spob_block *)
build_spob_block(d) ==
    build_prefixed_string(S_SPOB)
    \o SizedArray(10, Len(d.objects),
          Cat([i \in 1..Len(d.objects) |-> build_v2_object(d.objects[i])]))

(* One frame of _build_camera: the size field is 4 + 64 + 64 + 24 + 24;    *)
(* the frame holds the timeline, the matrix, 16 and 6 zero floats.         *)
build_camera_frame(mf) ==
    Cat(<<<<66>>, VarIntOf(4 + 64 + 64 + 24 + 24), PackU32(mf.timeline),
          Cat([i \in 1..Len(mf.matrix) |-> F32_pack(mf.matrix[i])]),
          Repeat(0, 64), Repeat(0, 24)>>)

(* _build_camera(cam) *)
build_camera(cam) ==
    SizedArray(10, Len(cam.matrices) + 4,
      Cat(<<build_bwx_value_string(PyStr(S_CAM)),
            build_bwx_value_string(cam.name),
            ConstCAMR,
            build_bwx_value_int(PyInt(0)),
            Cat([i \in 1..Len(cam.matrices) |-> build_camera_frame(cam.matrices[i])])>>))

(* _build_cam_block *)
build_cam_block(d) ==
    build_prefixed_string(S_CAM)
    \o SizedArray(10, Len(d.cameras),
          Cat([i \in 1..Len(d.cameras) |-> build_camera(d.cameras[i])]))

(* Variant: the camera block is emitted before the object block.           *)
WriterBlocks_CamerasFirst(d, version) ==
    <<build_block_0, build_head_block(version)>>
    \o (IF d.materials # <<>> THEN <<build_mtrl_block(d)>> ELSE <<>>)
    \o (IF d.cameras # <<>> THEN <<build_cam_block(d)>> ELSE <<>>)
    \o (IF d.objects # <<>>
        THEN <<IF version = 1 THEN build_obj2_block(d) ELSE build_spob_block(d)>>
        ELSE <<>>)

(* The blocks BWXWriter.build emits, in order.                             *)
WriterBlocks(d, version) ==
    <<build_block_0, build_head_block(version)>>
    \o (IF d.materials # <<>> THEN <<build_mtrl_block(d)>> ELSE <<>>)
    \o (IF d.objects # <<>>
        THEN <<IF version = 1 THEN build_obj2_block(d) ELSE build_spob_block(d)>>
        ELSE <<>>)
    \o (IF d.cameras # <<>> THEN <<build_cam_block(d)>> ELSE <<>>)

(* The output of build for the blocks built: signature, content size,      *)
(* block count, blocks, ending.                                            *)
build_output(block_count, blocks_data) ==
    Cat(<<S_BWXF, VarIntOf(Len(blocks_data) + 10), VarIntOf(block_count),
          blocks_data, S_FXWB>>)

build_blocks(blocks) == build_output(Len(blocks), Cat(blocks))

(* The bytes a build returns, BuildError when a builder raised.            *)
Raised(output) == IF Poisoned(output) THEN BuildError ELSE output

(* BWXWriter(data, version).build() *)
build(d, version) == Raised(build_blocks(WriterBlocks(d, version)))

----------------------------------------------------------------------------
(* Input files.  The files given to the importer are composed from the     *)
(* record layouts above: block lists in a frame, with chosen object names, *)
(* direction tags, vertex counts and header versions.                      *)

N_a == <<97>>
N_b == <<98>>
N_EV == <<69, 86, 95, 116, 114, 105, 103, 103, 101, 114, 48, 49>>
N_EP == <<69, 80, 95, 49>>
N_AT == <<64, 120>>
N_SFX == <<83, 70, 88>>
N_BB == <<98, 105, 108, 108, 98, 111, 97, 114, 100>>
N_EVnear == <<69, 86>>
N_evlow == <<101, 118, 95, 120>>
ObjectNames == {N_a, N_b, N_EV, N_EP, N_AT, N_SFX, N_BB, N_EVnear, N_evlow}
PairNames == {N_a, N_b, N_EV, N_AT, N_EVnear}

Quarter == Dy(1, 0 - 2)
Half == Dy(1, 0 - 1)
Identity == [i \in 1..16 |-> IF i \in {1, 6, 11, 16} THEN Dy(1, 0) ELSE Dy(0, 0)]

(* A mesh of n vertices: vertex i at (i, 0, 0) with normal (0, 0, 1) and   *)
(* texture coordinate (1/2, 1/4); the triangles (0, i, i + 1).             *)
MeshOf(n) ==
    MeshData(PyInt(0), PyInt(0),
        [i \in 1..n |-> <<DyNorm(i, 0), Dy(0, 0), Dy(0, 0)>>],
        [i \in 1..n |-> <<Dy(0, 0), Dy(0, 0), Dy(1, 0)>>],
        [i \in 1..n |-> <<Half, Quarter>>],
        [i \in 1..(n - 2) |-> <<PyInt(0), PyInt(i), PyInt(i + 1)>>])

ObjectOf(name, n, frames) ==
    [name |-> PyStr(name), material_index |-> PyInt(0), meshes |-> <<MeshOf(n)>>,
     matrices |-> [i \in 1..frames |-> [timeline |-> 3 * i, matrix |-> Identity]]]

(* The object as an entry of an OBJ2 block (dx FALSE) or of a SPOB block,  *)
(* with direction tag dir.                                                 *)
RawObject(dx, dir, obj) ==
    IF dx THEN build_object(obj, S_DXOBJ, dir, build_v2_meshes(obj), build_v2_matrices(obj))
    ELSE build_object(obj, S_OBJ2, dir, build_v1_meshes(obj), build_v1_matrices(obj))

(* Mesh arrays whose vertex data is too short to be interpreted: a v2      *)
(* frame declaring 3 vertices over an empty buffer, a v1 frame whose one   *)
(* position is a blob of 4 bytes.                                          *)
BadV2Meshes ==
    LET frame == WArray(60, 6, Cat(<<build_bwx_value_string(PyStr(S_DXMESHF)),
                       build_bwx_value_int(PyInt(0)), build_bwx_value_int(PyInt(21)),
                       build_bwx_value_int(PyInt(3)), build_bwx_value_int(PyInt(32)),
                       build_bwx_value_data(<<>>)>>))
        mesh == WArray(90, 6, Cat(<<build_bwx_value_string(PyStr(S_DXMESH)),
                       build_bwx_value_int(PyInt(0)), WArray(60, 1, frame),
                       build_bwx_value_int(PyInt(0)), build_bwx_value_data(<<>>)>>))
    IN  WArray(100, 1, mesh)

BadV1Meshes ==
    LET zero == build_bwx_value_compact_int(PyInt(0))
        frame == WArray(40, 5, Cat(<<build_bwx_value_string(PyStr(S_MESHF)),
                       build_bwx_value_int(PyInt(0)),
                       WArray(15, 1, build_bwx_value_block(<<0, 0, 0, 0>>)),
                       WArray(10, 0, <<>>)>>))
        mesh == WArray(70, 10, Cat(<<build_bwx_value_string(PyStr(S_MESH)),
                       WArray(50, 1, frame), WArray(10, 1, zero), WArray(10, 0, <<>>),
                       zero, zero, zero, zero>>))
    IN  WArray(80, 1, mesh)

BadObject(dx, name) ==
    LET obj == ObjectOf(name, 0, 0) IN
    IF dx THEN build_object(obj, S_DXOBJ, MNHX, BadV2Meshes, build_v2_matrices(obj))
    ELSE build_object(obj, S_OBJ2, MNHX, BadV1Meshes, build_v1_matrices(obj))

(* A block of raw object entries.                                          *)
ObjectBlock(dx, entries) ==
    build_prefixed_string(IF dx THEN S_SPOB ELSE S_OBJ2)
    \o SizedArray(10, Len(entries), Cat(entries))

(* The HEAD block with the given version code.                             *)
WithVersion(b, code) ==
    [b EXCEPT ![Len(b) - 6] = code % 256, ![Len(b) - 5] = code \div 256]
HeadBlock(code) == WithVersion(build_head_block(1), code)

V1Code == 5 * 256
V2Code == 6 * 256 + 2
OtherCodes == {1, 5 * 256 + 1}

(* A file: signature, content size, block count, the blocks, ending.       *)
Frame(blocks) == build_blocks(blocks)

(* signature BWXF, content_size 0, block_count 0, ending FXWB *)
EmptyContainer == S_BWXF \o <<0, 0>> \o S_FXWB

(* f with byte i changed by d.                                             *)
Alter(f, i, d) == [f EXCEPT ![i] = (f[i] + d) % 256]

Block0 == build_block_0
Versions == {FALSE, TRUE}
CodeOf(dx) == IF dx THEN V2Code ELSE V1Code

(* One object in the block of its dialect: every name, both direction      *)
(* tags, 0..MaxVerts vertices.                                             *)
ObjectFiles ==
    {Frame(<<Block0, HeadBlock(CodeOf(dx)),
             ObjectBlock(dx, <<RawObject(dx, dir, ObjectOf(name, n, 0))>>)>>) :
        dx \in Versions, dir \in {MNHX, MSHX}, name \in ObjectNames, n \in 0..MaxVerts}

(* One object whose vertex data cannot be interpreted.                     *)
BadMeshFiles ==
    {Frame(<<Block0, HeadBlock(CodeOf(dx)), ObjectBlock(dx, <<BadObject(dx, name)>>)>>) :
        dx \in Versions, name \in ObjectNames}

(* Two objects with one matrix frame each.                                 *)
PairFiles ==
    {Frame(<<Block0, HeadBlock(CodeOf(dx)),
             ObjectBlock(dx, <<RawObject(dx, MNHX, ObjectOf(n1, 1, 1)),
                               RawObject(dx, MSHX, ObjectOf(n2, 3, 1))>>)>>) :
        dx \in Versions, n1 \in PairNames, n2 \in PairNames}

White == PyTuple(<<Dy(1, 0), Dy(1, 0), Dy(1, 0), Dy(1, 0)>>)
Grey == PyTuple(<<Half, Half, Half>>)
Shine == PyTuple(<<Half, Half, Half, Half>>)

(* Texture file names: none, "t.p", "c:\x\t.p".                            *)
TextureNames == {<<>>, <<116, 46, 112>>, <<99, 58, 92, 120, 92, 116, 46, 112>>}

(* A MTRL block of count materials with one sub-material each; the texture *)
(* record is written with the file name as given.                          *)
MaterialBlock(count, tex) ==
    LET sm == SubMaterialData(White, Grey, Grey, Shine,
                              IF tex = <<>> THEN PyNone ELSE PyStr(tex))
    IN  build_mtrl_block(BWXData([i \in 1..count |->
                                    [name |-> PyStr(N_a), sub_materials |-> <<sm>>]],
                                 <<>>, <<>>))

CameraBlock ==
    build_cam_block(BWXData(<<>>, <<>>,
        <<[name |-> PyStr(N_a),
           matrices |-> <<[timeline |-> 0, matrix |-> Identity]>>]>>))

MaterialFiles ==
    {Frame(<<Block0, HeadBlock(CodeOf(dx)), MaterialBlock(count, tex)>>
           \o (IF withObject
               THEN <<ObjectBlock(dx, <<RawObject(dx, MNHX, ObjectOf(N_a, 1, 0))>>)>>
               ELSE <<>>)) :
        dx \in Versions, count \in 1..2, tex \in TextureNames, withObject \in BOOLEAN}

CameraFiles ==
    {Frame(<<Block0, HeadBlock(CodeOf(dx)), CameraBlock>>) : dx \in Versions}

(* The blocks after the header in the files that vary the header.          *)
PayloadsOf(a, b) ==
    {<<>>, <<a>>, <<b>>, <<a, b>>, <<b, a>>, <<MaterialBlock(1, <<>>)>>, <<CameraBlock>>}
Payloads ==
    PayloadsOf(ObjectBlock(FALSE, <<RawObject(FALSE, MNHX, ObjectOf(N_a, 1, 0))>>),
               ObjectBlock(TRUE, <<RawObject(TRUE, MNHX, ObjectOf(N_b, 1, 0))>>))

(* Header variants: no HEAD block, either dialect, an unsupported version. *)
HeaderFilesOf(ps) ==
    {Frame(<<Block0>> \o p) : p \in ps}
    \cup {Frame(p) : p \in ps}
    \cup {Frame(<<Block0, HeadBlock(code)>> \o p) :
            code \in {V1Code, V2Code} \cup OtherCodes, p \in ps}
HeaderFiles == HeaderFilesOf(Payloads)

(* Well-framed files and the same files with one byte of the signature or  *)
(* of the ending changed.                                                  *)
FramingBases ==
    {EmptyContainer, Frame(<<Block0, HeadBlock(V1Code)>>)}
    \cup {Frame(<<Block0, HeadBlock(CodeOf(dx)),
                  ObjectBlock(dx, <<RawObject(dx, MNHX, ObjectOf(N_a, 1, 0))>>)>>) :
            dx \in Versions}

FramingFilesOf(bases) ==
    bases
    \cup {Alter(f, i, d) : f \in bases, i \in 1..4, d \in {1, 128}}
    \cup {Alter(f, Len(f) - 4 + i, d) : f \in bases, i \in 1..4, d \in {1, 128}}
FramingFiles == FramingFilesOf(FramingBases)

(* One object whose mesh array holds no mesh.                              *)
NoMeshObject(name) == [ObjectOf(name, 0, 1) EXCEPT !.meshes = <<>>]
NoMeshFiles ==
    {Frame(<<Block0, HeadBlock(CodeOf(dx)),
             ObjectBlock(dx, <<RawObject(dx, MNHX, NoMeshObject(name))>>)>>) :
        dx \in Versions, name \in {N_a, N_EV}}

(* One object of three vertices whose one face names vertex ix: the first  *)
(* index past the three vertices, or an index past the whole buffer.       *)
StrayIndexObject(ix) ==
    [ObjectOf(N_a, 3, 0) EXCEPT
        !.meshes = <<[MeshOf(3) EXCEPT !.faces = <<<<PyInt(0), PyInt(1), PyInt(ix)>>>>]>>]
StrayIndexFiles ==
    {Frame(<<Block0, HeadBlock(CodeOf(dx)),
             ObjectBlock(dx, <<RawObject(dx, MNHX, StrayIndexObject(ix))>>)>>) :
        dx \in Versions, ix \in {3, 7}}

(* A v1 mesh array whose one mesh has a frame without vertices and an      *)
(* empty sub_material array.                                               *)
NoSubMaterialMeshes ==
    LET zero == build_bwx_value_compact_int(PyInt(0))
        frame == WArray(40, 5, Cat(<<build_bwx_value_string(PyStr(S_MESHF)),
                       build_bwx_value_int(PyInt(0)),
                       WArray(10, 0, <<>>), WArray(10, 0, <<>>)>>))
        mesh == WArray(70, 10, Cat(<<build_bwx_value_string(PyStr(S_MESH)),
                       WArray(50, 1, frame), WArray(10, 0, <<>>), WArray(10, 0, <<>>),
                       zero, zero, zero, zero>>))
    IN  WArray(80, 1, mesh)

NoSubMaterialObject(name) ==
    build_object(ObjectOf(name, 0, 0), S_OBJ2, MNHX, NoSubMaterialMeshes,
                 build_v1_matrices(ObjectOf(name, 0, 0)))

(* Files that fail after their container is decoded, behind something that *)
(* decodes: a material or a good object in front of an object whose vertex *)
(* data cannot be interpreted or whose v1 mesh has no sub_material.        *)
LateErrorFiles ==
    {Frame(<<Block0, HeadBlock(CodeOf(dx)), MaterialBlock(1, <<>>),
             ObjectBlock(dx, <<BadObject(dx, N_a)>>)>>) : dx \in Versions}
    \cup {Frame(<<Block0, HeadBlock(CodeOf(dx)),
                  ObjectBlock(dx, <<RawObject(dx, MNHX, ObjectOf(N_a, 1, 0)),
                                    BadObject(dx, N_b)>>)>>) : dx \in Versions}
    \cup {Frame(<<Block0, HeadBlock(V1Code), MaterialBlock(1, <<>>),
                  ObjectBlock(FALSE, <<NoSubMaterialObject(N_a)>>)>>)}

Files ==
    ObjectFiles \cup BadMeshFiles \cup PairFiles \cup MaterialFiles \cup CameraFiles
    \cup HeaderFiles \cup FramingFiles \cup NoMeshFiles \cup StrayIndexFiles
    \cup LateErrorFiles

----------------------------------------------------------------------------
(* The importer, the writer and a second importer as a state machine.      *)

ViIdle == [stage |-> "idle", v |-> PyBig(FALSE, <<>>), by |-> "", enc |-> <<>>, cut |-> 0,
           trail |-> <<>>, dec |-> <<>>, used |-> 0, length |-> 0, e |-> ""]

ProbeIdle ==
    [stage |-> "idle", decl |-> "", arg |-> <<>>, s |-> <<>>, v |-> PyNone, used |-> 0,
     e |-> ""]

(* The exception read() raises to its caller, none when it returns.        *)
NoException == [type |-> "", msg |-> ""]
ImportError(msg) == [type |-> "ImportError", msg |-> msg]

(* Exception kinds of the model that are not subclasses of Exception.      *)
BaseOnly == {"KeyboardInterrupt", "SystemExit"}

(* Variant: only the two file errors are translated, any other exception   *)
(* reaches the caller as it was raised.                                    *)
read_raises_FileErrorsOnly(e) ==
    IF e = "" THEN NoException
    ELSE IF e = "FileNotFoundError" THEN ImportError("File not found: ")
    ELSE IF e = "PermissionError" THEN ImportError("Permission denied: ")
    ELSE [type |-> e, msg |-> ""]

(* The except clauses of BWXImporter.read for an exception of kind e       *)
(* raised in the try block: the literal head of the message is kept.       *)
read_raises(e) ==
    IF e = "" THEN NoException
    ELSE IF e = "FileNotFoundError" THEN ImportError("File not found: ")
    ELSE IF e = "PermissionError" THEN ImportError("Permission denied: ")
    ELSE IF e \notin BaseOnly THEN ImportError("Failed to read file: ")
    ELSE [type |-> e, msg |-> ""]

(* The importer's path as a sequence of ASCII characters, and the name     *)
(* __init__ derives from it: Path(filepath).stem.split('_')[-1].lower().   *)
Slash == 47
Dot == 46
Underscore == 95

(* PurePosixPath parts: the components between slashes, empty ones and     *)
(* "." dropped.                                                            *)
RECURSIVE PathParts(_, _, _, _)
PathParts(p, i, cur, acc) ==
    LET done == IF cur = <<>> \/ cur = <<Dot>> THEN acc ELSE Append(acc, cur) IN
    IF i > Len(p) THEN done
    ELSE IF p[i] = Slash THEN PathParts(p, i + 1, <<>>, done)
    ELSE PathParts(p, i + 1, Append(cur, p[i]), acc)

(* PurePath.name: the last component, "" when there is none.               *)
PathName(p) ==
    LET parts == PathParts(p, 1, <<>>, <<>>) IN
    IF parts = <<>> THEN <<>> ELSE parts[Len(parts)]

(* PurePath.stem: the name up to its last dot, the whole name when that    *)
(* dot is its first or last character or is missing.                       *)
PathStem(p) ==
    LET name == PathName(p)
        i == LastIndexIn(name, {Dot}, Len(name))
    IN  IF 1 < i /\ i < Len(name) THEN SubSeq(name, 1, i - 1) ELSE name

(* Variant: split('_')[0], the part before the first underscore.           *)
LastField_First(s) ==
    IF IndexFrom(s, Underscore, 1) = 0 THEN s ELSE SubSeq(s, 1, IndexFrom(s, Underscore, 1) - 1)

(* str.split('_')[-1] *)
LastField(s) == SubSeq(s, LastIndexIn(s, {Underscore}, Len(s)) + 1, Len(s))

(* str.lower() on ASCII *)
Lower(s) == [i \in 1..Len(s) |-> IF s[i] \in 65..90 THEN s[i] + 32 ELSE s[i]]

animation_name_of(p) == Lower(LastField(PathStem(p)))

(* "m.PNX" *)
ModelPath == <<109, Dot, 80, 78, 88>>

(* The writer's output path before write(): no parent directory, no file.  *)
(* dir and file are "absent", "old" (there before write was called) or     *)
(* "new" (made by write); bytes is the file's content, writes the number   *)
(* of write calls made on it.                                              *)
NoDisk == [dir |-> "absent", file |-> "absent", bytes |-> <<>>, writes |-> 0]

(* BWXBlender before create(): nothing created.                            *)
BlenderIdle == [pc |-> "new", objects |-> <<>>, cache |-> <<>>, e |-> ""]

(* BWXImporter(filepath, settings) for the path of the given characters   *)
(* and status, the file holding bytes f when there is one: empty data      *)
(* that carries the animation name, version 0; no writer yet.              *)
InitImporter(status, f, path) ==
    /\ file = status
    /\ content = f
    /\ data = EmptyData
    /\ sl_version = 0
    /\ pc = "new"
    /\ err = ""
    /\ raised = NoException
    /\ reads = 0
    /\ wsrc = EmptyData
    /\ wver = 0
    /\ wpc = "none"
    /\ out = <<>>
    /\ pc2 = "new"
    /\ data2 = EmptyData
    /\ vi = ViIdle
    /\ probe = ProbeIdle
    /\ disk = NoDisk
    /\ wstep = 0
    /\ wraised = NoException
    /\ filepath = path
    /\ animation_name = animation_name_of(path)
    /\ blender = BlenderIdle
    /\ PackedInt_length = 0
    /\ decodes = <<>>

InitFile(status, f) == InitImporter(status, f, ModelPath)

InitWith(f) == InitFile("present", f)

Init == \E f \in Files : InitWith(f)

(* The importer's fields after _parse ended with r, and what read raises.  *)
Parsed(r) ==
    /\ data' = r.data
    /\ sl_version' = r.sl_version
    /\ err' = r.e
    /\ raised' = read_raises(r.e)
    /\ pc' = IF r.e = "" THEN "read_ok" ELSE "read_err"

(* self._filepath.read_bytes() of a path that is missing or unreadable:    *)
(* _parse is not reached.                                                  *)
read_bytes_error(status) ==
    [e |-> IF status = "missing" THEN "FileNotFoundError" ELSE "PermissionError",
     at |-> 0, sl_version |-> sl_version, data |-> data]

(* BWXImporter.read: the file's bytes parsed into the importer's data; any *)
(* exception leaves what was stored before it was raised.                  *)
Read ==
    /\ reads < MaxReads
    /\ wpc = "none"
    /\ Parsed(IF file = "present" THEN Importer_parse(content, data, sl_version)
              ELSE read_bytes_error(file))
    /\ reads' = reads + 1
    /\ UNCHANGED <<file, content, wsrc, wver, wpc, out, pc2, data2, vi, probe,
                disk, wstep, wraised, filepath, animation_name, blender, PackedInt_length, decodes>>

(* BWXWriter(importer.data, version) for the dialect the importer read.    *)
Export ==
    /\ pc = "read_ok"
    /\ wpc = "none"
    /\ wsrc' = data
    /\ wver' = sl_version
    /\ wpc' = "idle"
    /\ UNCHANGED <<file, content, data, sl_version, pc, err, raised, reads, out, pc2, data2, vi, probe,
                disk, wstep, wraised, filepath, animation_name, blender, PackedInt_length, decodes>>

(* The writer after build returned or raised.                              *)
Built(b) ==
    /\ out' = b
    /\ wpc' = IF Poisoned(b) THEN "build_err" ELSE "built"

(* BWXWriter.build *)
Build ==
    /\ wpc = "idle"
    /\ Built(build(wsrc, wver))
    /\ UNCHANGED <<file, content, data, sl_version, pc, err, raised, reads, wsrc, wver, pc2, data2, vi, probe,
                disk, wstep, wraised, filepath, animation_name, blender, PackedInt_length, decodes>>

(* The second importer's fields after _parse ended with r.                 *)
ParsedBack(r) ==
    /\ data2' = r.data
    /\ pc2' = IF r.e = "" THEN "read_ok" ELSE "read_err"

(* A new importer reads the bytes the writer built.                        *)
ReadBack ==
    /\ wpc = "built"
    /\ pc2 = "new"
    /\ ParsedBack(Importer_parse(out, EmptyData, 0))
    /\ UNCHANGED <<file, content, data, sl_version, pc, err, raised, reads, wsrc, wver, wpc, out, vi, probe,
                disk, wstep, wraised, filepath, animation_name, blender, PackedInt_length, decodes>>

Next == Read \/ Export \/ Build \/ ReadBack

Spec == Init /\ [][Next]_vars

----------------------------------------------------------------------------
(* read() on its own, on a path that holds one of the files, does not      *)
(* exist, or may not be read.                                              *)

InitRead ==
    \/ \E f \in Files : InitFile("present", f)
    \/ \E status \in {"missing", "denied"} : InitFile(status, <<>>)

NextRead == Read

SpecRead == InitRead /\ [][NextRead]_vars

----------------------------------------------------------------------------
(* The VarInt codec on its own: a value is encoded by one of the two       *)
(* encoders, and the bytes, followed by other bytes of the stream, are     *)
(* decoded by PackedInt._parse.                                            *)

(* 2^32 - 1 and 2^32 as limbs.                                             *)
Max32 == <<65535, 65535>>
Pow32 == <<0, 0, 1>>

VarIntValues ==
    {W(n) : n \in 0..MaxSmall}
    \cup {W(127), W(128), W(255), W(16383), W(16384), W(2097151), W(2097152),
          W(2147483647), Max32, Pow32}

(* The arguments given to the encoders: the values, and -1 and -128.       *)
VarIntInputs ==
    {PyBig(FALSE, w) : w \in VarIntValues} \cup {PyBig(TRUE, W(1)), PyBig(TRUE, W(128))}

(* Bytes that follow the encoded value in the stream.                      *)
Trails == {<<>>, <<0>>, <<255, 1>>, <<128>>}

(* The encoder returned enc, or raised before it stored or returned any    *)
(* byte: IntegerError in PackedInt._build, ValueError in _build_varint.    *)
Encoded(v, by, enc) ==
    IF Poisoned(enc)
    THEN [ViIdle EXCEPT !.stage = "raised", !.v = v, !.by = by,
                        !.e = IF by = "PackedInt" THEN "IntegerError" ELSE "ValueError"]
    ELSE [ViIdle EXCEPT !.stage = "encoded", !.v = v, !.by = by, !.enc = enc]

Decoded(trail, r) ==
    [vi EXCEPT !.stage = "decoded", !.trail = trail, !.dec = r.v, !.used = r.c.p,
               !.length = r.length, !.e = r.c.e]

VarIntIdle ==
    UNCHANGED <<file, content, data, sl_version, pc, err, raised, reads, wsrc, wver, wpc, out, pc2,
                data2, probe,
                disk, wstep, wraised, filepath, animation_name, blender, PackedInt_length, decodes>>

(* PackedInt._build(v) *)
EncodePacked ==
    /\ vi.stage = "idle"
    /\ \E v \in VarIntInputs : vi' = Encoded(v, "PackedInt", PackedInt_build(v))
    /\ VarIntIdle

(* BWXWriter._build_varint(v) *)
EncodeWriter ==
    /\ vi.stage = "idle"
    /\ \E v \in VarIntInputs : vi' = Encoded(v, "_build_varint", build_varint(v))
    /\ VarIntIdle

(* PackedInt._parse on the encoded bytes and what follows them.            *)
Decode ==
    /\ vi.stage = "encoded"
    /\ \E trail \in Trails : vi' = Decoded(trail, PackedInt_parse(vi.enc \o trail, Cur(0)))
    /\ VarIntIdle

(* PackedInt._parse on a stream that ends inside the encoded value: its    *)
(* first cut bytes, each with the high bit set.                            *)
DecodeTruncated ==
    /\ vi.stage = "encoded"
    /\ \E k \in 0..(Len(vi.enc) - 1) :
         LET r == PackedInt_parse(SubSeq(vi.enc, 1, k), Cur(0)) IN
         vi' = [vi EXCEPT !.stage = "truncated", !.cut = k, !.dec = r.v, !.used = r.c.p,
                          !.length = r.length, !.e = r.c.e]
    /\ VarIntIdle

InitVarInt == InitWith(EmptyContainer)

NextVarInt == EncodePacked \/ EncodeWriter \/ Decode \/ DecodeTruncated

SpecVarInt == InitVarInt /\ [][NextVarInt]_vars

----------------------------------------------------------------------------
(* The writer on scenes of one object with one v2 mesh, as the scene       *)
(* extractor hands them to BWXWriter: n vertices with positions, normals   *)
(* and texture coordinates, the coordinates being float32 values.          *)

(* 0.1 as a float32: 13421773 * 2^-27.                                     *)
Tenth == Dy(13421773, 0 - 27)
ThreeQuarters == Dy(3, 0 - 2)

UValues == {Half, Tenth}
VValues == {Dy(0, 0), Quarter, ThreeQuarters, Tenth}

SceneMesh(n, u, vs) ==
    MeshData(PyInt(0), PyInt(0),
        [i \in 1..n |-> <<DyNorm(i, 0), Dy(0, 0), Dy(0, 0)>>],
        [i \in 1..n |-> <<Dy(0, 0), Dy(0, 0), Dy(1, 0)>>],
        [i \in 1..n |-> <<u, vs[i]>>],
        [i \in 1..(n - 2) |-> <<PyInt(0), PyInt(i), PyInt(i + 1)>>])

Scene(n, u, vs) ==
    BWXData(<<>>,
            <<[name |-> PyStr(N_a), material_index |-> PyInt(0),
               meshes |-> <<SceneMesh(n, u, vs)>>, matrices |-> <<>>]>>,
            <<>>)

(* BWXWriter(scene, version=2) *)
InitWrite ==
    \E n \in 1..MaxVerts : \E u \in UValues : \E vs \in [1..n -> VValues] :
        /\ file = "present"
        /\ content = EmptyContainer
        /\ data = EmptyData
        /\ sl_version = 0
        /\ pc = "new"
        /\ err = ""
        /\ raised = NoException
        /\ reads = 0
        /\ wsrc = Scene(n, u, vs)
        /\ wver = 2
        /\ wpc = "idle"
        /\ out = <<>>
        /\ pc2 = "new"
        /\ data2 = EmptyData
        /\ vi = ViIdle
        /\ probe = ProbeIdle
        /\ disk = NoDisk
        /\ wstep = 0
        /\ wraised = NoException
        /\ filepath = ModelPath
        /\ animation_name = animation_name_of(ModelPath)
        /\ blender = BlenderIdle
        /\ PackedInt_length = 0
        /\ decodes = <<>>

NextWrite == Build \/ ReadBack

SpecWrite == InitWrite /\ [][NextWrite]_vars

----------------------------------------------------------------------------
(* The construct declarations on their own: a stream is given to one       *)
(* declaration, which parses it from position 0.                           *)

(* Number of bytes that follow an inline blob in its stream.               *)
MaxExtra == 2

(* k bytes, none of them alike its neighbours.                             *)
Fill(k) == [i \in 1..k |-> (37 * i + 11) % 256]

(* The streams given to bwx_value: every type byte, followed for the types *)
(* above 0x80 by no byte, by one byte less than type & 0x7f, by as many,   *)
(* and by more; for the other types by 0, 1, 2, 4 and 6 bytes.             *)
BlobLens(n) == {k \in {0, n - 1, n, n + MaxExtra} : k >= 0}
ValueStreams ==
    {<<t>> \o Fill(k) : t \in 0..127, k \in {0, 1, 2, 4, 6}}
    \cup UNION {{<<128 + n>> \o Fill(k) : k \in BlobLens(n)} : n \in 0..127}

(* What declaration decl parsed from stream s, made from arg: the value,   *)
(* the number of bytes consumed and the exception raised.                  *)
ProbedOf(decl, arg, s, r) ==
    [stage |-> "parsed", decl |-> decl, arg |-> arg, s |-> s, v |-> r.v, used |-> r.c.p,
     e |-> r.c.e]
Probed(decl, s, r) == ProbedOf(decl, <<>>, s, r)

ProbeIdleRest ==
    UNCHANGED <<file, content, data, sl_version, pc, err, raised, reads, wsrc, wver, wpc, out, pc2,
                data2, vi,
                disk, wstep, wraised, filepath, animation_name, blender, PackedInt_length, decodes>>

(* bwx_value.parse(s) *)
ParseValue ==
    /\ probe.stage = "idle"
    /\ \E s \in ValueStreams : probe' = Probed("bwx_value", s, bwx_value(s, Cur(0)))
    /\ ProbeIdleRest

(* Longest data of the array records given to the parser.                  *)
MaxData == 2

(* Encodings of a count field and the number each encodes; the longer ones *)
(* carry groups of zero bits.                                              *)
CountEncodings ==
    {[b |-> <<0>>, n |-> 0], [b |-> <<5>>, n |-> 5], [b |-> <<129, 0>>, n |-> 1],
     [b |-> <<255, 1>>, n |-> 255], [b |-> <<128, 128, 0>>, n |-> 0]}

(* d bytes of data, marked by tag.                                         *)
DataOf(d, tag) == [i \in 1..d |-> tag + i]

(* A value of type 0x41: size, count as encoded in cb, d bytes of data.    *)
ArrayRecord(cb, d, tag) == <<65>> \o VarIntOf(Len(cb) + d) \o cb \o DataOf(d, tag)

(* Two array values one after the other, the last cut bytes missing.       *)
ArrayArgs ==
    [c1 : CountEncodings, d1 : 0..MaxData, c2 : CountEncodings, d2 : 0..MaxData,
     cut : 0..1]
ArrayStream(a) ==
    Take(ArrayRecord(a.c1.b, a.d1, 200) \o ArrayRecord(a.c2.b, a.d2, 100),
         Len(a.c1.b) + a.d1 + Len(a.c2.b) + a.d2 + 4 - a.cut)

ParsedArrays(a, s) == ProbedOf("bwx_value[2]", a, s, Array("bwx_value", s, Cur(0), 2))

(* Array(2, bwx_value).parse(s), as the declarations parse the values of a *)
(* record one after the other.                                             *)
ParseArrays ==
    /\ probe.stage = "idle"
    /\ \E a \in ArrayArgs : probe' = ParsedArrays(a, ArrayStream(a))
    /\ ProbeIdleRest

(* Array records as the writer builds them, each under the name of what it *)
(* holds: the header record is the HEAD block without its 6-byte name.     *)
ProbeSubMaterial(tex) ==
    SubMaterialData(White, Grey, Grey, Shine, IF tex = <<>> THEN PyNone ELSE PyStr(tex))
ProbeCamera ==
    [name |-> PyStr(N_a), matrices |-> <<[timeline |-> 0, matrix |-> Identity]>>]
WrittenRecords ==
    {[of |-> "header", rec |-> Drop(build_head_block(ver), 6)] : ver \in 1..2}
    \cup {[of |-> "texture", rec |-> build_texture(PyStr(tex))] :
            tex \in TextureNames \ {<<>>}}
    \cup {[of |-> "sub-material", rec |-> build_sub_material(ProbeSubMaterial(tex))] :
            tex \in TextureNames}
    \cup {[of |-> "material",
           rec |-> build_material([name |-> PyStr(N_a),
                                   sub_materials |-> <<ProbeSubMaterial(tex)>>])] :
            tex \in TextureNames}
    \cup {[of |-> "object", rec |-> build_v1_object(ObjectOf(N_a, n, 1))] : n \in 1..MaxVerts}
    \cup {[of |-> "object", rec |-> build_v2_object(ObjectOf(N_a, n, 1))] : n \in 1..MaxVerts}
    \cup {[of |-> "mesh", rec |-> build_v1_mesh(<<MeshOf(n)>>, PyInt(0))] : n \in 1..MaxVerts}
    \cup {[of |-> "mesh", rec |-> build_v2_mesh(<<MeshOf(n)>>, PyInt(0))] : n \in 1..MaxVerts}
    \cup {[of |-> "mesh frame", rec |-> build_v1_mesh_frame(MeshOf(n))] : n \in 1..MaxVerts}
    \cup {[of |-> "mesh frame", rec |-> build_v2_mesh_frame(MeshOf(n))] : n \in 1..MaxVerts}
    \cup {[of |-> "index", rec |-> build_v1_indices(MeshOf(n).faces)] : n \in 1..MaxVerts}
    \cup {[of |-> "matrix", rec |-> build_v1_matrices(ObjectOf(N_a, 1, k))] : k \in 0..2}
    \cup {[of |-> "matrix", rec |-> build_v2_matrices(ObjectOf(N_a, 1, k))] : k \in 0..2}
    \cup {[of |-> "camera", rec |-> build_camera(ProbeCamera)]}

(* Numbers of bytes that follow a written record in its stream.            *)
FollowLens == {0, 1, 9, 12}

ParsedWritten(a, s) == ProbedOf("written", a, s, bwx_value(s, Cur(0)))

(* bwx_value.parse on an Array record of the writer and the bytes after    *)
(* it.                                                                     *)
ParseWritten ==
    /\ probe.stage = "idle"
    /\ \E a \in WrittenRecords : \E k \in FollowLens :
          probe' = ParsedWritten(a, a.rec \o Fill(k))
    /\ ProbeIdleRest

(* The ints given to _build_bwx_value_compact_int: the small ones and the  *)
(* ends of the four forms.                                                 *)
CompactValues ==
    0..MaxSmall \cup {127, 128, 200, 255, 256, 257, 4660, 65535, 65536, 65537, 16777216,
                      2147483647}

ParsedCompact(a, s) == ProbedOf("compact_int", a, s, bwx_value(s, Cur(0)))

(* bwx_value.parse on what _build_bwx_value_compact_int(v) returns and the *)
(* bytes after it.                                                         *)
ParseCompact ==
    /\ probe.stage = "idle"
    /\ \E v \in CompactValues : \E k \in FollowLens :
          probe' = ParsedCompact([v |-> v, rec |-> build_bwx_value_compact_int(PyInt(v))],
                                 build_bwx_value_compact_int(PyInt(v)) \o Fill(k))
    /\ ProbeIdleRest

InitProbe == InitWith(EmptyContainer)

NextProbe == ParseValue \/ ParseArrays \/ ParseWritten \/ ParseCompact

SpecProbe == InitProbe /\ [][NextProbe]_vars


----------------------------------------------------------------------------
(* The writer on scenes as the scene extractor hands them to BWXWriter:    *)
(* colours as tuples of floats, materials with and without texture paths,  *)
(* any of the three lists empty or not, either dialect.                    *)

(* Texture paths of a sub-material: None, "", "t.p", "/d/t.p".             *)
TexturePaths ==
    {PyNone, PyStr(<<>>), PyStr(<<116, 46, 112>>), PyStr(<<47, 100, 47, 116, 46, 112>>)}

SceneSubMaterial(path) == SubMaterialData(White, Grey, Grey, Shine, path)
SceneMaterial(paths) ==
    [name |-> PyStr(N_a),
     sub_materials |-> [i \in 1..Len(paths) |-> SceneSubMaterial(paths[i])]]

SceneMaterials ==
    {<<>>}
    \cup {<<SceneMaterial(<<p>>)>> : p \in TexturePaths}
    \cup {<<SceneMaterial(<<p, q>>)>> : p \in TexturePaths, q \in TexturePaths}
    \cup {<<SceneMaterial(<<>>), SceneMaterial(<<p>>)>> : p \in TexturePaths}
SceneObjects ==
    {<<>>, <<ObjectOf(N_a, 3, 1)>>, <<ObjectOf(N_a, 1, 0), ObjectOf(N_b, 3, 1)>>}
SceneCameras == {<<>>, <<ProbeCamera>>}

(* BWXWriter(scene, version) *)
InitBuild ==
    \E ms \in SceneMaterials : \E os \in SceneObjects : \E cs \in SceneCameras :
    \E version \in 1..2 :
        /\ file = "present"
        /\ content = EmptyContainer
        /\ data = EmptyData
        /\ sl_version = 0
        /\ pc = "new"
        /\ err = ""
        /\ raised = NoException
        /\ reads = 0
        /\ wsrc = BWXData(ms, os, cs)
        /\ wver = version
        /\ wpc = "idle"
        /\ out = <<>>
        /\ pc2 = "new"
        /\ data2 = EmptyData
        /\ vi = ViIdle
        /\ probe = ProbeIdle
        /\ disk = NoDisk
        /\ wstep = 0
        /\ wraised = NoException
        /\ filepath = ModelPath
        /\ animation_name = animation_name_of(ModelPath)
        /\ blender = BlenderIdle
        /\ PackedInt_length = 0
        /\ decodes = <<>>

NextBuild == Build \/ ReadBack

SpecBuild == InitBuild /\ [][NextBuild]_vars


----------------------------------------------------------------------------
(* BWXWriter.write(filepath): the statements of its try block run one at   *)
(* a time, the output path being visible to everyone between them.  Any    *)
(* exception raised inside the block leaves write as a WriterError.        *)

WriterError == [type |-> "WriterError", msg |-> "Failed to write file: "]

(* Variant: the parent directory is made before the buffer is built.       *)
write_try_MkdirFirst == <<"mkdir", "build", "write_bytes">>

(* The try block of write, in order: binary_data = self.build(),           *)
(* path.parent.mkdir(parents=True, exist_ok=True),                         *)
(* path.write_bytes(binary_data).                                          *)
write_try == <<"build", "mkdir", "write_bytes">>

(* write is about to run the statement stmt.                               *)
WriteAt(stmt) == wpc = "idle" /\ wstep < Len(write_try) /\ write_try[wstep + 1] = stmt

(* The statement returned: the next one follows, or write returns.         *)
WriteStepped ==
    /\ wstep' = wstep + 1
    /\ wpc' = IF wstep + 1 = Len(write_try) THEN "written" ELSE "idle"
    /\ wraised' = NoException

(* The statement raised: the except clause raises WriterError.             *)
WriteRaised ==
    /\ wstep' = wstep
    /\ wpc' = "write_err"
    /\ wraised' = WriterError

WriteRest ==
    UNCHANGED <<file, content, data, sl_version, pc, err, raised, reads, wsrc, wver, pc2, data2,
                vi, probe, filepath, animation_name, blender, PackedInt_length, decodes>>

(* binary_data = self.build() *)
WriteBuild ==
    /\ WriteAt("build")
    /\ out' = build(wsrc, wver)
    /\ IF Poisoned(out') THEN WriteRaised ELSE WriteStepped
    /\ disk' = disk
    /\ WriteRest

(* path.parent.mkdir(parents=True, exist_ok=True): makes the directory     *)
(* when it is missing, leaves an existing one alone, or raises OSError.    *)
WriteMkdir ==
    /\ WriteAt("mkdir")
    /\ \E ok \in BOOLEAN :
         IF ok THEN /\ disk' = [disk EXCEPT !.dir = IF @ = "absent" THEN "new" ELSE @]
                    /\ WriteStepped
         ELSE disk' = disk /\ WriteRaised
    /\ out' = out
    /\ WriteRest

(* What path.write_bytes(b) leaves of the file: open(mode='wb') truncates  *)
(* or creates it, one write call stores b.  The open can raise OSError     *)
(* (nothing changes), and so can the write (the first k bytes are stored). *)
FileWritten(b, k) == [disk EXCEPT !.file = "new", !.bytes = SubSeq(b, 1, k), !.writes = @ + 1]

(* path.write_bytes(binary_data) *)
WriteBytes ==
    /\ WriteAt("write_bytes")
    /\ \E outcome \in {"ok", "open_fails", "write_fails"} :
         CASE outcome = "ok" -> disk' = FileWritten(out, Len(out)) /\ WriteStepped
           [] outcome = "open_fails" -> disk' = disk /\ WriteRaised
           [] OTHER -> disk' = FileWritten(out, Len(out) \div 2) /\ WriteRaised
    /\ out' = out
    /\ WriteRest

(* A sub-material as the importer stores it: the colours are ints.         *)
DecodedMaterial ==
    [name |-> PyStr(N_a),
     sub_materials |-> <<SubMaterialData(PyInt(0 - 1), PyInt(8355711), PyInt(8355711),
                                         PyFloat(Half), PyNone)>>]

WriteMaterials == {<<>>, <<SceneMaterial(<<PyNone>>)>>, <<DecodedMaterial>>}

(* The output path before write: nothing there, the directory only, or     *)
(* the directory with an older file of two bytes.                          *)
OldBytes == <<66, 87>>
Disks ==
    {NoDisk, [NoDisk EXCEPT !.dir = "old"],
     [NoDisk EXCEPT !.dir = "old", !.file = "old", !.bytes = OldBytes]}

(* BWXWriter(scene, version), about to write to a path in one of Disks.    *)
InitWriteFile ==
    \E ms \in WriteMaterials : \E os \in SceneObjects : \E cs \in SceneCameras :
    \E version \in 1..2 : \E d \in Disks :
        /\ file = "present"
        /\ content = EmptyContainer
        /\ data = EmptyData
        /\ sl_version = 0
        /\ pc = "new"
        /\ err = ""
        /\ raised = NoException
        /\ reads = 0
        /\ wsrc = BWXData(ms, os, cs)
        /\ wver = version
        /\ wpc = "idle"
        /\ out = <<>>
        /\ pc2 = "new"
        /\ data2 = EmptyData
        /\ vi = ViIdle
        /\ probe = ProbeIdle
        /\ disk = d
        /\ wstep = 0
        /\ wraised = NoException
        /\ filepath = ModelPath
        /\ animation_name = animation_name_of(ModelPath)
        /\ blender = BlenderIdle
        /\ PackedInt_length = 0
        /\ decodes = <<>>

NextWriteFile == WriteBuild \/ WriteMkdir \/ WriteBytes

SpecWriteFile == InitWriteFile /\ [][NextWriteFile]_vars


----------------------------------------------------------------------------
(* BWXBlender.create() as far as it chooses materials: for every object    *)
(* with meshes, _get_or_create_material(material_index, sub_material of    *)
(* the first mesh).  A material is recorded by what it was made from:      *)
(* "default" for _create_default_material, or "data" with the positions    *)
(* (from 1) of the material and sub-material whose data it shows.  The     *)
(* indices of the model are ints.                                          *)

MaterialKey(mi, smi) == <<mi, smi>>

DefaultMaterial(mi, smi) == [e |-> "", kind |-> "default", key |-> MaterialKey(mi, smi), m |-> 0, s |-> 0]

(* seq[i] for a Python list of length n: i from -n to n - 1 selects an     *)
(* element, counted from the end when negative; 0 stands for IndexError.   *)
ListIndex(i, n) == IF 0 <= i /\ i < n THEN i + 1 ELSE IF 0 - n <= i /\ i < 0 THEN n + i + 1 ELSE 0

(* Variant: indices below zero are out of range too.                       *)
get_or_create_material_Checked(mi, smi, materials) ==
    IF mi < 0 \/ mi >= Len(materials) THEN DefaultMaterial(mi, smi)
    ELSE IF smi < 0 \/ smi >= Len(materials[mi + 1].sub_materials) THEN DefaultMaterial(mi, smi)
    ELSE [e |-> "", kind |-> "data", key |-> MaterialKey(mi, smi), m |-> mi + 1, s |-> smi + 1]

(* BWXBlender._get_or_create_material(material_index, sub_material_index)  *)
(* on a key that is not in the cache.                                      *)
get_or_create_material(mi, smi, materials) ==
    IF mi >= Len(materials) THEN DefaultMaterial(mi, smi)
    ELSE IF ListIndex(mi, Len(materials)) = 0
         THEN [e |-> "IndexError", kind |-> "", key |-> MaterialKey(mi, smi), m |-> 0, s |-> 0]
    ELSE IF smi >= Len(materials[ListIndex(mi, Len(materials))].sub_materials)
         THEN DefaultMaterial(mi, smi)
    ELSE IF ListIndex(smi, Len(materials[ListIndex(mi, Len(materials))].sub_materials)) = 0
         THEN [e |-> "IndexError", kind |-> "", key |-> MaterialKey(mi, smi), m |-> 0, s |-> 0]
    ELSE [e |-> "", kind |-> "data", key |-> MaterialKey(mi, smi),
          m |-> ListIndex(mi, Len(materials)),
          s |-> ListIndex(smi, Len(materials[ListIndex(mi, Len(materials))].sub_materials))]

(* The material for the key: the cached one when the key is cached.        *)
MaterialFor(mi, smi, materials, cache) ==
    IF \E j \in 1..Len(cache) : cache[j].key = MaterialKey(mi, smi)
    THEN cache[CHOOSE j \in 1..Len(cache) : cache[j].key = MaterialKey(mi, smi)]
    ELSE get_or_create_material(mi, smi, materials)

(* BWXBlender._create_objects: b is the BWXBlender so far; an object       *)
(* without meshes is skipped, an exception ends the loop.                  *)
RECURSIVE create_objects(_, _, _)
create_objects(d, i, b) ==
    IF i > Len(d.objects) THEN [b EXCEPT !.pc = "created"]
    ELSE IF d.objects[i].meshes = <<>> THEN create_objects(d, i + 1, b)
    ELSE LET mat == MaterialFor(d.objects[i].material_index.i,
                                d.objects[i].meshes[1].sub_material.i, d.materials, b.cache)
         IN  IF mat.e # "" THEN [b EXCEPT !.pc = "create_err", !.e = mat.e]
             ELSE create_objects(d, i + 1,
                    [b EXCEPT !.objects = Append(@, [name |-> d.objects[i].name, material |-> mat]),
                              !.cache = IF \E j \in 1..Len(@) : @[j].key = mat.key THEN @
                                        ELSE Append(@, mat)])

BlenderRest ==
    UNCHANGED <<file, content, data, sl_version, pc, err, raised, reads, wsrc, wver, wpc, out, pc2,
                data2, vi, probe, disk, wstep, wraised, filepath, animation_name,
                PackedInt_length, decodes>>

(* BWXBlender.create(): an exception inside is raised as BlenderError.     *)
Create ==
    /\ pc = "read_ok"
    /\ blender.pc = "new"
    /\ blender' = create_objects(data, 1, blender)
    /\ BlenderRest

(* Decoded scenes: 0, 1 or 2 materials (the first of two with two          *)
(* sub-materials), and one or two objects whose material index and first   *)
(* sub_material are ints from -3 to 3.                                     *)
IndexValues == (0 - 3)..3

BlenderMaterial(name, n) ==
    [name |-> PyStr(name), sub_materials |-> [i \in 1..n |-> SceneSubMaterial(PyNone)]]
BlenderMaterials ==
    {<<>>, <<BlenderMaterial(N_a, 1)>>, <<BlenderMaterial(N_a, 2), BlenderMaterial(N_b, 1)>>}

BlenderObject(name, mi, smi) ==
    [name |-> PyStr(name), material_index |-> PyInt(mi),
     meshes |-> <<[MeshOf(3) EXCEPT !.sub_material = PyInt(smi)]>>, matrices |-> <<>>]
BlenderObjects ==
    {<<BlenderObject(N_a, mi, smi)>> : mi \in IndexValues, smi \in IndexValues}
    \cup {<<BlenderObject(N_a, mi, 0), BlenderObject(N_b, 0, 0)>> : mi \in IndexValues}

(* BWXBlender(data) on the data of an importer that has read.              *)
InitBlender ==
    \E ms \in BlenderMaterials : \E os \in BlenderObjects :
        /\ file = "present"
        /\ content = EmptyContainer
        /\ data = BWXData(ms, os, <<>>)
        /\ sl_version = 2
        /\ pc = "read_ok"
        /\ err = ""
        /\ raised = NoException
        /\ reads = 1
        /\ wsrc = EmptyData
        /\ wver = 0
        /\ wpc = "none"
        /\ out = <<>>
        /\ pc2 = "new"
        /\ data2 = EmptyData
        /\ vi = ViIdle
        /\ probe = ProbeIdle
        /\ disk = NoDisk
        /\ wstep = 0
        /\ wraised = NoException
        /\ filepath = ModelPath
        /\ animation_name = animation_name_of(ModelPath)
        /\ blender = BlenderIdle
        /\ PackedInt_length = 0
        /\ decodes = <<>>

NextBlender == Create

SpecBlender == InitBlender /\ [][NextBlender]_vars


----------------------------------------------------------------------------
(* Importers constructed on paths of various shapes, then reading.         *)

(* File names: with and without underscores, extensions, upper case, a     *)
(* leading or trailing dot.                                                *)
PathNames ==
    {
     <<72, 69, 82, 79, 66, 73, 79, 95, 100, 101, 102, 97, 117, 108, 116, 46, 80, 78, 88>>, \* "HEROBIO_default.PNX"
     <<99, 104, 97, 114, 97, 99, 116, 101, 114, 46, 80, 78, 88>>, \* "character.PNX"
     <<65, 95, 66, 95, 99, 46, 112, 110, 120>>, \* "A_B_c.pnx"
     <<120, 95, 46, 80, 78, 88>>, \* "x_.PNX"
     <<95, 88, 46, 80, 78, 88>>, \* "_X.PNX"
     <<46, 80, 78, 88>>, \* ".PNX"
     <<97, 46, 98, 95, 67, 46, 80, 78, 88>>, \* "a.b_C.PNX"
     <<109, 46, 80, 95, 88>>, \* "m.P_X"
     <<110, 111, 101, 120, 116>>, \* "noext"
     <<78, 79, 95, 69, 88, 84>>, \* "NO_EXT"
     <<116, 46>>, \* "t."
     <<65, 95, 98, 46>>, \* "A_b."
     <<95>>, \* "_"
     <<97, 95, 95, 66, 46, 80, 78, 88>>, \* "a__B.PNX"
     <<46, 104, 95, 73>>, \* ".h_I"
     <<90>>} \* "Z"

(* Directories in front of the name: none, "d/", "/x_y/", "A_b.c/".        *)
PathDirs == {<<>>, <<100, 47>>, <<47, 120, 95, 121, 47>>, <<65, 95, 98, 46, 99, 47>>}

Paths == {d \o n : d \in PathDirs, n \in PathNames}

(* The files at these paths: one with a camera, one without a HEAD block.  *)
NameFiles == {Frame(<<Block0, HeadBlock(V1Code), CameraBlock>>), EmptyContainer}

InitName == \E p \in Paths : \E f \in NameFiles : InitImporter("present", f, p)

NextName == Read

SpecName == InitName /\ [][NextName]_vars


----------------------------------------------------------------------------
(* Two decode passes, each parsing one bwx_array from its own stream, in   *)
(* one interpreter: the fields of bwx_array are parsed one at a time, and  *)
(* the passes can alternate between any two fields.  PackedInt is one      *)
(* instance shared by every declaration that names it; its _parse stores   *)
(* the number of bytes it read in self.length and its sizeof() returns it. *)

Passes == 1..2

DecodeOf(s) ==
    [pc |-> "size", s |-> s, pos |-> 0, size |-> 0, count |-> 0, length |-> 0, data |-> <<>>,
     e |-> ""]

(* The pass stops at an exception.                                         *)
DecodeStep(d, r, next) == [d EXCEPT !.pc = IF r.c.e = "" THEN next ELSE "failed", !.pos = r.c.p, !.e = r.c.e]

DecodesRest ==
    UNCHANGED <<file, content, data, sl_version, pc, err, raised, reads, wsrc, wver, wpc, out, pc2,
                data2, vi, probe, disk, wstep, wraised, filepath, animation_name, blender>>

(* "size" / VarInt *)
DecodeSize ==
    \E t \in Passes :
        /\ decodes[t].pc = "size"
        /\ LET r == VarInt_parse(decodes[t].s, Cur(decodes[t].pos)) IN
           decodes' = [decodes EXCEPT ![t] = [DecodeStep(@, r, "count") EXCEPT !.size = r.v]]
        /\ PackedInt_length' = PackedInt_length
        /\ DecodesRest

(* "count" / PackedInt: _parse sets self.length.                           *)
DecodeCount ==
    \E t \in Passes :
        /\ decodes[t].pc = "count"
        /\ LET r == PackedInt_parse(decodes[t].s, Cur(decodes[t].pos)) IN
           /\ decodes' = [decodes EXCEPT ![t] = [DecodeStep(@, r, "data") EXCEPT !.count = WToNat(r.v)]]
           /\ PackedInt_length' = r.length
        /\ DecodesRest

(* "data" / Bytes(this.size - this._subcons.count.sizeof())                *)
DecodeData ==
    \E t \in Passes :
        /\ decodes[t].pc = "data"
        /\ LET n == decodes[t].size - PackedInt_length
               r == stream_read(decodes[t].s, Cur(decodes[t].pos), n)
           IN  decodes' = [decodes EXCEPT ![t] = [DecodeStep(@, r, "done") EXCEPT !.length = n, !.data = r.v]]
        /\ PackedInt_length' = PackedInt_length
        /\ DecodesRest

(* Streams holding one array and two more bytes: counts of one, two and    *)
(* three bytes, 0, 2 or 3 bytes of data.                                   *)
StreamCounts == {1, 200, 20000}
StreamData == {<<>>, <<7, 8>>, <<1, 2, 3>>}
PassStream(count, bs) ==
    VarIntOf(Len(VarIntOf(count)) + Len(bs)) \o VarIntOf(count) \o bs \o <<9, 9>>
PassStreams == {PassStream(n, bs) : n \in StreamCounts, bs \in StreamData}

InitDecodes ==
    \E s1 \in PassStreams : \E s2 \in PassStreams :
        /\ file = "present"
        /\ content = EmptyContainer
        /\ data = EmptyData
        /\ sl_version = 0
        /\ pc = "new"
        /\ err = ""
        /\ raised = NoException
        /\ reads = 0
        /\ wsrc = EmptyData
        /\ wver = 0
        /\ wpc = "none"
        /\ out = <<>>
        /\ pc2 = "new"
        /\ data2 = EmptyData
        /\ vi = ViIdle
        /\ probe = ProbeIdle
        /\ disk = NoDisk
        /\ wstep = 0
        /\ wraised = NoException
        /\ filepath = ModelPath
        /\ animation_name = animation_name_of(ModelPath)
        /\ blender = BlenderIdle
        /\ PackedInt_length = 0
        /\ decodes = <<DecodeOf(s1), DecodeOf(s2)>>

NextDecodes == DecodeSize \/ DecodeCount \/ DecodeData

SpecDecodes == InitDecodes /\ [][NextDecodes]_vars


----------------------------------------------------------------------------
(* The writer on one object of one mesh frame whose timeline runs over the *)
(* unsigned 32-bit range, in either dialect, and an importer reading what  *)
(* was built.                                                              *)

Timelines ==
    {PyInt(n) : n \in 0..MaxSmall}
    \cup {PyInt(255), PyInt(256), PyInt(65535), PyInt(65536), PyInt(2147483647)}
    \cup {PyUInt(1, 0), PyUInt(1, 1), PyUInt(1, 2147483647)}

TimelineScene(t) ==
    BWXData(<<>>,
            <<[ObjectOf(N_a, 3, 0) EXCEPT !.meshes = <<[MeshOf(3) EXCEPT !.timeline = t]>>]>>,
            <<>>)

(* BWXWriter(scene, version) *)
InitTimeline ==
    \E t \in Timelines : \E version \in 1..2 :
        /\ file = "present"
        /\ content = EmptyContainer
        /\ data = EmptyData
        /\ sl_version = 0
        /\ pc = "new"
        /\ err = ""
        /\ raised = NoException
        /\ reads = 0
        /\ wsrc = TimelineScene(t)
        /\ wver = version
        /\ wpc = "idle"
        /\ out = <<>>
        /\ pc2 = "new"
        /\ data2 = EmptyData
        /\ vi = ViIdle
        /\ probe = ProbeIdle
        /\ disk = NoDisk
        /\ wstep = 0
        /\ wraised = NoException
        /\ filepath = ModelPath
        /\ animation_name = animation_name_of(ModelPath)
        /\ blender = BlenderIdle
        /\ PackedInt_length = 0
        /\ decodes = <<>>

NextTimeline == Build \/ ReadBack

SpecTimeline == InitTimeline /\ [][NextTimeline]_vars


----------------------------------------------------------------------------
(* The writer on one object with one to three meshes of three vertices,    *)
(* each with a sub_material of 0 or 1 and one of two face lists, in either *)
(* dialect, and an importer reading what was built.                        *)

FaceLists ==
    {<<<<PyInt(0), PyInt(1), PyInt(2)>>>>, <<<<PyInt(0), PyInt(2), PyInt(1)>>>>}

SequenceMesh(sub, faces) == [MeshOf(3) EXCEPT !.sub_material = PyInt(sub), !.faces = faces]

MeshSequences ==
    UNION {[1..n -> {SequenceMesh(sub, faces) : sub \in 0..1, faces \in FaceLists}] : n \in 1..3}

(* BWXWriter(scene, version) *)
InitMeshes ==
    \E ms \in MeshSequences : \E version \in 1..2 :
        /\ file = "present"
        /\ content = EmptyContainer
        /\ data = EmptyData
        /\ sl_version = 0
        /\ pc = "new"
        /\ err = ""
        /\ raised = NoException
        /\ reads = 0
        /\ wsrc = BWXData(<<>>, <<[ObjectOf(N_a, 3, 0) EXCEPT !.meshes = ms]>>, <<>>)
        /\ wver = version
        /\ wpc = "idle"
        /\ out = <<>>
        /\ pc2 = "new"
        /\ data2 = EmptyData
        /\ vi = ViIdle
        /\ probe = ProbeIdle
        /\ disk = NoDisk
        /\ wstep = 0
        /\ wraised = NoException
        /\ filepath = ModelPath
        /\ animation_name = animation_name_of(ModelPath)
        /\ blender = BlenderIdle
        /\ PackedInt_length = 0
        /\ decodes = <<>>

NextMeshes == Build \/ ReadBack

SpecMeshes == InitMeshes /\ [][NextMeshes]_vars


----------------------------------------------------------------------------
(* What a file holds, read off the container record bwx that bwx_struct    *)
(* returns for it.                                                         *)

(* The version field of the first HEAD block.                              *)
HeadCode(bwx) == get_block(bwx, S_HEAD).version

(* The object entries of the first block of that name, none when the file  *)
(* has no such block.                                                      *)
BlockObjects(bwx, name) ==
    IF has_block(bwx, name) THEN get_block(bwx, name).object ELSE <<>>

(* The object entries of the block of the header's dialect.                *)
RawObjects(bwx) ==
    BlockObjects(bwx, IF HeadCode(bwx) = V1Code THEN S_OBJ2 ELSE S_SPOB)

(* 'EV_', 'EP_', '@', 'SFX', 'billboard' *)
BypassPrefixes ==
    {<<69, 86, 95>>, <<69, 80, 95>>, <<64>>, <<83, 70, 88>>,
     <<98, 105, 108, 108, 98, 111, 97, 114, 100>>}

Bypassed(o) == \E p \in BypassPrefixes : IsPrefix(p, o.name.b)

(* The entries that are not bypass objects, in file order.                 *)
Retained(os) == SelectSeq(os, LAMBDA o : ~Bypassed(o))

Names(os) == [i \in 1..Len(os) |-> os[i].name.b]

(* bwx_struct accepts the file with a HEAD block in it.                    *)
HasHead(r) == Ok(r.c) /\ has_block(r.v, S_HEAD)

(* bwx_struct accepts the file without a HEAD block in it.                 *)
LacksHead(r) == Ok(r.c) /\ ~has_block(r.v, S_HEAD)

(* The first four bytes are not BWXF.                                      *)
BadSignature == Len(content) >= 4 /\ SubSeq(content, 1, 4) # S_BWXF

(* The signature, the sizes and the declared blocks parse up to cursor c,  *)
(* and the four bytes after the last block are not FXWB.                   *)
BadEndingAt(c) ==
    /\ Ok(c)
    /\ c.p + 4 <= Len(content)
    /\ SubSeq(content, c.p + 1, c.p + 4) # S_FXWB
BadEnding ==
    BadEndingAt(Struct(content, Cur(0), SubSeq(bwx_struct_fields, 1, 4), 1, <<>>).c)

(* The raw index stream of mesh m of dialect version.                      *)
RawIndices(m, version) ==
    IF version = 1 THEN m.index_buffer
    ELSE U16Array(m.index_buffer.b, m.index_count.i)

(* Triangle t of index stream ix as read, and with b and c exchanged.      *)
Triangle(ix, t) == <<ix[3 * t - 2], ix[3 * t - 1], ix[3 * t]>>
Exchanged(ix, t) == <<ix[3 * t - 2], ix[3 * t], ix[3 * t - 1]>>

(* The mesh record and the frame record that mesh q of raw object o is     *)
(* decoded from.                                                           *)
RawMesh(o, q) == o.mesh[MeshPairs(o)[q][1]]
RawFrame(o, q) == o.mesh[MeshPairs(o)[q][1]].sub_mesh[MeshPairs(o)[q][2]]

----------------------------------------------------------------------------
(* Properties.                                                             *)

(* C1, as stated: every file the importer decodes (first read of a fresh   *)
(* importer) is rebuilt by the writer in the same dialect without an       *)
(* exception, and the rebuilt bytes decode to the same BWXData.            *)
C1_RoundTrip ==
    reads = 1 =>
        /\ wpc # "build_err"
        /\ pc2 # "read_err"
        /\ (pc2 = "read_ok" => data2 = wsrc)

(* C2: for every non-negative v, both encoders return bytes of which only  *)
(* the last has the high bit clear and the first carries the low 7 bits of *)
(* v; PackedInt._parse on these bytes, whatever follows them, returns v    *)
(* and consumes exactly their number.                                      *)
C2_VarIntRoundTrip ==
    /\ (vi.stage = "raised" => vi.v.neg)
    /\ (vi.stage \in {"encoded", "decoded"} =>
          /\ ~vi.v.neg
          /\ Len(vi.enc) >= 1
          /\ \A i \in 1..(Len(vi.enc) - 1) : vi.enc[i] \in 128..255
          /\ vi.enc[Len(vi.enc)] \in 0..127
          /\ vi.enc[1] % 128 = WLow7(vi.v.w))
    /\ (vi.stage = "decoded" =>
          /\ vi.e = ""
          /\ vi.dec = vi.v.w
          /\ vi.used = Len(vi.enc)
          /\ vi.length = Len(vi.enc))

(* 2^32 - 1, encoded by _build_varint in five bytes, decoded with bytes    *)
(* following.                                                              *)
C2_Witness ==
    /\ vi.stage = "decoded"
    /\ vi.by = "_build_varint"
    /\ vi.v.w = Max32
    /\ Len(vi.enc) = 5
    /\ vi.trail = <<255, 1>>
    /\ vi.dec = Max32

(* C3: a file whose first four bytes are not BWXF, or whose four bytes     *)
(* after the last declared block are not FXWB, is not decoded: every read  *)
(* raises (a ConstError, wrapped in ImportError) and the importer's data   *)
(* stays empty.                                                            *)
C3_FramingSignatures ==
    (reads >= 1 /\ (BadSignature \/ BadEnding)) =>
        /\ pc = "read_err"
        /\ err = "ConstError"
        /\ data = EmptyData
        /\ wpc = "none"

(* A file with blocks and a good signature whose ending is altered was     *)
(* read and rejected.                                                      *)
C3_Witness ==
    /\ reads >= 1
    /\ pc = "read_err"
    /\ Len(content) > 30
    /\ ~BadSignature
    /\ BadEnding

(* The container is accepted with no blocks in it.                         *)
NoBlocks(r) == Ok(r.c) /\ r.v.block = <<>>

(* C4, amended: the container BWXF, 0, 0, FXWB is accepted by bwx_struct   *)
(* with no blocks, and the importer's read of it raises for the missing    *)
(* HEAD block, its data staying empty.                                     *)
C4_EmptyContainerRejected ==
    content = EmptyContainer =>
        /\ NoBlocks(bwx_struct(content))
        /\ (reads >= 1 => pc = "read_err" /\ err = "MissingHead" /\ data = EmptyData)

C4_Witness == content = EmptyContainer /\ reads = 1 /\ pc = "read_err"

(* C4, as stated: the empty container decodes successfully to an empty     *)
(* BWXData.                                                                *)
C4_EmptyContainerDecodes ==
    (content = EmptyContainer /\ reads >= 1) => (pc = "read_ok" /\ data = EmptyData)

(* C5: a read of a well-framed file without a HEAD block raises, whatever  *)
(* other blocks the file has, and the importer's data stays empty.         *)
C5_MissingHeadFatal ==
    (reads >= 1 /\ LacksHead(bwx_struct(content))) =>
        /\ pc = "read_err"
        /\ err = "MissingHead"
        /\ data = EmptyData

(* The file has object blocks of both kinds and no HEAD block.             *)
ObjectsWithoutHead(r) ==
    /\ LacksHead(r)
    /\ BlockObjects(r.v, S_OBJ2) # <<>>
    /\ BlockObjects(r.v, S_SPOB) # <<>>

C5_Witness ==
    /\ reads >= 1
    /\ pc = "read_err"
    /\ ObjectsWithoutHead(bwx_struct(content))

(* What C6 says of the read of a framed file with a HEAD block.            *)
Dispatched(bwx) ==
    /\ (HeadCode(bwx) = V1Code /\ pc = "read_ok") =>
          /\ sl_version = 1
          /\ Names(data.objects) = Names(Retained(BlockObjects(bwx, S_OBJ2)))
    /\ (HeadCode(bwx) = V2Code /\ pc = "read_ok") =>
          /\ sl_version = 2
          /\ Names(data.objects) = Names(Retained(BlockObjects(bwx, S_SPOB)))
    /\ (HeadCode(bwx) \notin {V1Code, V2Code}) =>
          /\ pc = "read_err"
          /\ err = "UnsupportedVersion"
          /\ data = EmptyData
DispatchedIfHead(r) == HasHead(r) => Dispatched(r.v)

(* C6: a header with version 0x0500 makes the decode v1, its objects those *)
(* of the OBJ2 block only; 0x0602 makes it v2, its objects those of the    *)
(* SPOB block only; any other version value raises the unsupported-version *)
(* error and nothing is decoded.                                           *)
C6_DialectDispatch == reads = 1 => DispatchedIfHead(bwx_struct(content))

(* A v2 file with object a in an OBJ2 block and object b in a SPOB block.  *)
BothBlocksV2(r) ==
    /\ HasHead(r)
    /\ HeadCode(r.v) = V2Code
    /\ Names(BlockObjects(r.v, S_OBJ2)) = <<N_a>>
    /\ Names(BlockObjects(r.v, S_SPOB)) = <<N_b>>

C6_Witness ==
    /\ reads = 1
    /\ pc = "read_ok"
    /\ Names(data.objects) = <<N_b>>
    /\ BothBlocksV2(bwx_struct(content))

(* The faces of the objects decoded from raw objects os follow the         *)
(* direction tags of os.                                                   *)
Wound(os) ==
    \A k \in 1..Len(data.objects) :
        \A q \in 1..Len(data.objects[k].meshes) :
            \A t \in 1..Len(data.objects[k].meshes[q].faces) :
                data.objects[k].meshes[q].faces[t] =
                    IF os[k].direction.value = I32(MSHX)
                    THEN Exchanged(RawIndices(RawMesh(os[k], q), sl_version), t)
                    ELSE Triangle(RawIndices(RawMesh(os[k], q), sl_version), t)

(* C7, as stated: in both dialects every triangle (a, b, c) of the index   *)
(* stream of an object whose direction is MSHX is decoded as (a, c, b),    *)
(* and of any other object as (a, b, c).                                   *)
C7_FaceWinding ==
    (reads = 1 /\ pc = "read_ok") => Wound(Retained(RawObjects(bwx_struct(content).v)))

(* Mesh m decoded from a frame declaring count vertices has count - 2      *)
(* vertices.                                                               *)
StrippedMesh(m, count) ==
    count >= 2 =>
        /\ Len(m.positions) = count - 2
        /\ Len(m.normals) = count - 2
        /\ Len(m.tex_coords) = count - 2
Stripped(os) ==
    \A k \in 1..Len(data.objects) :
        \A q \in 1..Len(data.objects[k].meshes) :
            StrippedMesh(data.objects[k].meshes[q], RawFrame(os[k], q).vertex_count.i)

(* C8, as stated: a v2 frame declaring vertex_count = N + 2, for any       *)
(* N >= 0, decodes to exactly N positions, N normals and N texture         *)
(* coordinates.                                                            *)
C8_DummyStripping ==
    (reads = 1 /\ pc = "read_ok" /\ sl_version = 2) =>
        Stripped(Retained(RawObjects(bwx_struct(content).v)))

(* The scene's mesh, the frame record the writer built for it, the floats  *)
(* of record i of a vertex buffer, and the mesh read back.                 *)
SourceMesh == wsrc.objects[1].meshes[1]
WrittenFrame ==
    get_block(bwx_struct(out).v, S_SPOB).object[1].mesh[1].sub_mesh[1]
Record(buf, i) == Floats(SubSeq(buf, 32 * i - 31, 32 * i))
MeshBack == data2.objects[1].meshes[1]

(* x is a float32 value.                                                   *)
IsFloat32(x) == F32_parse(F32_pack(x)) = x

(* The frame built for a mesh of n vertices with texture coordinates uv.   *)
FrameOf(count, buf, n, uv) ==
    /\ count = n + 2
    /\ Len(buf) = 32 * (n + 2)
    /\ \A j \in 1..64 : buf[32 * n + j] = 0
    /\ \A i \in 1..n :
          /\ Record(buf, i)[7] = uv[i][1]
          /\ Record(buf, i)[8] = F32_parse(F32_pack(OneMinus(uv[i][2])))

(* The mesh m read back from vertex buffer buf, written for n vertices     *)
(* with texture coordinates uv.                                            *)
ReadOf(m, buf, n, uv) ==
    /\ Len(m.positions) = n
    /\ Len(m.normals) = n
    /\ Len(m.tex_coords) = n
    /\ \A i \in 1..n :
          /\ m.tex_coords[i][1] = uv[i][1]
          /\ m.tex_coords[i][2] = OneMinus(Record(buf, i)[8])
          /\ IsFloat32(OneMinus(uv[i][2])) => m.tex_coords[i][2] = uv[i][2]

Written(frame) ==
    /\ FrameOf(frame.vertex_count.i, frame.vertex_buffer.b,
               Len(SourceMesh.positions), SourceMesh.tex_coords)
    /\ pc2 = "read_ok" =>
          ReadOf(MeshBack, frame.vertex_buffer.b,
                 Len(SourceMesh.positions), SourceMesh.tex_coords)

(* C9, amended: for a mesh of N >= 1 vertices the v2 writer builds a frame *)
(* with vertex_count N + 2 and a buffer of 32 * (N + 2) bytes whose last   *)
(* two records are zero, storing U as given and V as float32(1 - V); the   *)
(* decode returns N vertices with U as stored and V = 1 - stored V, which  *)
(* is the V written whenever 1 - V is a float32 value.                     *)
C9_FlipAndDummies ==
    /\ wpc # "build_err"
    /\ pc2 # "read_err"
    /\ wpc = "built" => Written(WrittenFrame)

(* A mesh of three vertices, one of them with V = 0.1f and one with        *)
(* V = 1/4, was written and read back.                                     *)
C9_Witness ==
    /\ pc2 = "read_ok"
    /\ Len(SourceMesh.positions) = 3
    /\ SourceMesh.tex_coords[1][2] = Tenth
    /\ SourceMesh.tex_coords[2][2] = Quarter
    /\ MeshBack.tex_coords[2][2] = Quarter
    /\ MeshBack.tex_coords[1][2] # Tenth

(* C9, as stated: the flip on decode is the exact inverse of the writer's  *)
(* flip, so the V read back is the V written.                              *)
C9_ExactInverse ==
    pc2 = "read_ok" =>
        \A i \in 1..Len(SourceMesh.tex_coords) :
            MeshBack.tex_coords[i][2] = SourceMesh.tex_coords[i][2]

(* The object the importer stores for raw object o of dialect version.     *)
ExpectedObject(o, version) ==
    [name |-> o.name, material_index |-> o.material,
     meshes |-> parse_meshes(o, version).v, matrices |-> parse_matrices(o)]

(* The decode of retained raw objects os of dialect version.               *)
Filtered(os, version) ==
    /\ pc = "read_ok" =>
          data.objects = [k \in 1..Len(os) |-> ExpectedObject(os[k], version)]
    /\ pc = "read_err" =>
          \E k \in 1..Len(os) : parse_meshes(os[k], version).e = err
FilteredIfSupported(r) ==
    (HasHead(r) /\ HeadCode(r.v) \in {V1Code, V2Code}) =>
        Filtered(Retained(RawObjects(r.v)), VersionOf(HeadCode(r.v)))

OnlyBadBypass(os, version) ==
    /\ Len(os) = 1
    /\ Bypassed(os[1])
    /\ parse_meshes(os[1], version).e # ""

ValueParsed == probe.stage = "parsed" /\ probe.decl = "bwx_value"

(* C11, as stated: for every n in 0..127 a value of type 0x80 | n decodes  *)
(* to the blob of the n bytes that follow the type byte, and fails as a    *)
(* truncated stream when fewer than n bytes follow.                        *)
C11_InlineBlob ==
    (ValueParsed /\ probe.s[1] >= 128) =>
        IF Len(probe.s) - 1 >= probe.s[1] - 128
        THEN /\ probe.e = ""
             /\ probe.v = PyBytes(SubSeq(probe.s, 2, probe.s[1] - 128 + 1))
             /\ probe.used = probe.s[1] - 128 + 1
        ELSE probe.e = "StreamError"

(* The types the Switch of bwx_value lists.                                *)
ListedTypes == {65, 66, 67, 68, 70, 72, 73, 83, 87, 89}

(* C12, as stated: a value whose type byte is neither listed nor an inline *)
(* blob type fails to decode.                                              *)
C12_UnrecognizedTag ==
    (ValueParsed /\ probe.s[1] < 128 /\ probe.s[1] \notin ListedTypes) => probe.e # ""


(* The array value of a record made with count encoding c and d bytes of   *)
(* data marked by tag.                                                     *)
ArrayOf(c, d, tag) == PyArr(Len(c.b) + d, c.n, DataOf(d, tag))

(* What C13 says of two array values made from a.                          *)
ArraysDecoded(a) ==
    IF a.cut = 0
    THEN /\ probe.e = ""
         /\ probe.used = Len(probe.s)
         /\ probe.v = <<ArrayOf(a.c1, a.d1, 200), ArrayOf(a.c2, a.d2, 100)>>
    ELSE probe.e = "StreamError"

(* C13: the data of an array value (type 0x41) of declared size S whose    *)
(* count field is encoded in L bytes is the S - L bytes after the count    *)
(* field, L being the length of that array's own count field, whatever the *)
(* count field of the array parsed before it; the decode fails when the    *)
(* bytes are not there.                                                    *)
C13_ArraySizeRule ==
    (probe.stage = "parsed" /\ probe.decl = "bwx_value[2]") => ArraysDecoded(probe.arg)

(* An array with a count field of three bytes was parsed before an array   *)
(* with a count field of one byte, each with two bytes of data.            *)
C13_Witness ==
    /\ probe.stage = "parsed"
    /\ probe.decl = "bwx_value[2]"
    /\ probe.e = ""
    /\ Len(probe.arg.c1.b) = 3
    /\ Len(probe.arg.c2.b) = 1
    /\ probe.v[1].b = <<201, 202>>
    /\ probe.v[2].b = <<101, 102>>


(* C14, as stated: the size field of every Array record the writer emits   *)
(* is the number of bytes that follow its count field, so the generic      *)
(* array decoder given the record and what follows it consumes exactly the *)
(* record.                                                                 *)
C14_WrittenArraySize ==
    (probe.stage = "parsed" /\ probe.decl = "written") =>
        /\ probe.e = ""
        /\ probe.used = Len(probe.arg.rec)


(* The names of the blocks of a container, in file order.                  *)
BlockNames(block) == [i \in 1..Len(block) |-> block[i].name.b]

(* The names C15 gives for scene d written in dialect version.             *)
EmittedNames(d, version) ==
    <<S_0, S_HEAD>>
    \o (IF d.materials # <<>> THEN <<S_MTRL>> ELSE <<>>)
    \o (IF d.objects # <<>> THEN <<IF version = 1 THEN S_OBJ2 ELSE S_SPOB>> ELSE <<>>)
    \o (IF d.cameras # <<>> THEN <<S_CAM>> ELSE <<>>)

(* The output, parsed as a container to r, is framed and holds the blocks  *)
(* of names in that order, as many as its block count says.                *)
Emitted(r, names) ==
    /\ Take(out, 4) = S_BWXF
    /\ Drop(out, Len(out) - 4) = S_FXWB
    /\ Ok(r.c)
    /\ r.c.p = Len(out)
    /\ r.v.block_count = Len(names)
    /\ BlockNames(r.v.block) = names

(* C15: the output of build is BWXF, content size, block count, the blocks *)
(* 0, HEAD, MTRL, the object block of the dialect, CAM in this order, and  *)
(* FXWB; MTRL, the object block and CAM are there exactly when the scene's *)
(* list is not empty, and the block count is the number of blocks.         *)
C15_BlockOrder ==
    wpc = "built" => Emitted(bwx_struct(out), EmittedNames(wsrc, wver))

(* A v1 scene with materials, objects and cameras was built to the five    *)
(* blocks.                                                                 *)
C15_Witness ==
    /\ wpc = "built"
    /\ wver = 1
    /\ wsrc.materials # <<>>
    /\ wsrc.objects # <<>>
    /\ wsrc.cameras # <<>>
    /\ BlockNames(bwx_struct(out).v.block) = <<S_0, S_HEAD, S_MTRL, S_OBJ2, S_CAM>>


(* C16, as stated: every object of the data of a successful decode has a   *)
(* mesh.                                                                   *)
C16_MeshesNonEmpty ==
    pc = "read_ok" => \A k \in 1..Len(data.objects) : data.objects[k].meshes # <<>>


(* Mesh m of a file of the given dialect: positions, normals and texture   *)
(* coordinates of one length in version 2, no normals in version 1.        *)
MeshLengths(m, version) ==
    IF version = 2
    THEN Len(m.positions) = Len(m.normals) /\ Len(m.normals) = Len(m.tex_coords)
    ELSE m.normals = <<>>
AllMeshes(os, P(_)) ==
    \A k \in 1..Len(os) : \A q \in 1..Len(os[k].meshes) : P(os[k].meshes[q])

(* C17: every mesh decoded from a version 2 file has positions, normals    *)
(* and texture coordinates of equal length, and every mesh decoded from a  *)
(* version 1 file has no normals.                                          *)
C17_MeshLengths ==
    (reads = 1 /\ pc = "read_ok") =>
        LET P(m) == MeshLengths(m, sl_version) IN AllMeshes(data.objects, P)

(* A version 2 file was decoded to a mesh that has vertices.               *)
C17_Witness ==
    /\ reads = 1
    /\ pc = "read_ok"
    /\ sl_version = 2
    /\ \E k \in 1..Len(data.objects) : \E q \in 1..Len(data.objects[k].meshes) :
           Len(data.objects[k].meshes[q].positions) >= 1


(* Every index of every face of mesh m names one of its positions.         *)
FacesInRange(m) ==
    \A t \in 1..Len(m.faces) : \A j \in 1..3 :
        m.faces[t][j].i >= 0 /\ m.faces[t][j].i < Len(m.positions)

(* C18, as stated: in every mesh of the data of a successful decode, each  *)
(* of the three indices of each face is smaller than the number of         *)
(* positions of that mesh.                                                 *)
C18_FaceIndexBound ==
    pc = "read_ok" => AllMeshes(data.objects, FacesInRange)


(* The material records of the MTRL block of a container, none when the    *)
(* file has no such block.                                                 *)
RawMaterials(bwx) ==
    IF has_block(bwx, S_MTRL) THEN get_block(bwx, S_MTRL).material ELSE <<>>

(* P holds of every sub-material of ms and the record of raw at its place. *)
AllSubMaterials(ms, raw, P(_, _)) ==
    /\ Len(raw) = Len(ms)
    /\ \A i \in 1..Len(ms) :
          /\ Len(raw[i].sub_material) = Len(ms[i].sub_materials)
          /\ \A j \in 1..Len(ms[i].sub_materials) :
                P(ms[i].sub_materials[j], raw[i].sub_material[j])

(* Record r declares 9 fields and ends with a TEX record when set, and     *)
(* declares 8 fields and holds no TEX record otherwise.                    *)
TextureWritten(r, set) ==
    IF set THEN r.count = 9 /\ HasTexture(r) ELSE r.count = 8 /\ ~HasTexture(r)

(* Sub-material sm decoded from record r has a texture path exactly when r *)
(* declares more than 8 fields.                                            *)
TextureDecoded(sm, r) == (sm.texture_path # PyNone) <=> (r.count > 8)

(* The texture path is a string that is not empty.                         *)
NonEmptyPath(sm) == sm.texture_path.k = "str" /\ sm.texture_path.b # <<>>
WrittenIfNonEmpty(sm, r) == TextureWritten(r, NonEmptyPath(sm))
WrittenIfSet(sm, r) == TextureWritten(r, sm.texture_path # PyNone)

(* The three places the claim speaks of: the records of the built output   *)
(* against the scene, the data read back against the records of the output,*)
(* the data of a first read against the records of the file.               *)
TexturePresence(Emits(_, _)) ==
    /\ wpc = "built" =>
          AllSubMaterials(wsrc.materials, RawMaterials(bwx_struct(out).v), Emits)
    /\ pc2 = "read_ok" =>
          AllSubMaterials(data2.materials, RawMaterials(bwx_struct(out).v), TextureDecoded)
    /\ (reads = 1 /\ pc = "read_ok") =>
          AllSubMaterials(data.materials, RawMaterials(bwx_struct(content).v), TextureDecoded)

(* C19, as stated: a decoded sub-material has a texture path exactly when  *)
(* its record declares more than 8 fields, and the writer emits 9 fields   *)
(* with a trailing TEX record exactly when texture_path is set (is not     *)
(* None), 8 fields and no TEX record otherwise.                            *)
C19_AsStated == TexturePresence(WrittenIfSet)

(* C19, amended: a decoded sub-material has a texture path exactly when    *)
(* its record declares more than 8 fields, and the writer emits 9 fields   *)
(* with a trailing TEX record exactly when texture_path is a string that   *)
(* is not empty, 8 fields and no TEX record otherwise: the empty string is *)
(* written like None.                                                      *)
C19_TexturePresence == TexturePresence(WrittenIfNonEmpty)

(* A material whose two sub-materials have the empty path and the path     *)
(* "t.p" was built and read back.                                          *)
C19_Witness ==
    /\ wpc = "built"
    /\ pc2 = "read_ok"
    /\ Len(wsrc.materials) = 1
    /\ Len(wsrc.materials[1].sub_materials) = 2
    /\ wsrc.materials[1].sub_materials[1].texture_path = PyStr(<<>>)
    /\ wsrc.materials[1].sub_materials[2].texture_path = PyStr(<<116, 46, 112>>)
    /\ data2.materials[1].sub_materials[1].texture_path = PyNone
    /\ data2.materials[1].sub_materials[2].texture_path # PyNone


(* C20: every read that fails raises ImportError to its caller, whatever   *)
(* was raised inside it (no file, no permission, bytes that are no         *)
(* container, a truncated stream, an unsupported version, no HEAD block,   *)
(* mesh data that cannot be interpreted); a read of a path that does not   *)
(* exist or may not be read fails, the former with a message that holds    *)
(* 'File not found'.                                                       *)
C20_SingleErrorType ==
    /\ pc = "read_err" => raised.type = "ImportError"
    /\ (file # "present" /\ reads >= 1) => pc = "read_err"
    /\ (file = "missing" /\ reads >= 1) => raised = ImportError("File not found: ")

(* A path that does not exist was read.                                    *)
C20_Witness ==
    /\ file = "missing"
    /\ reads = 1
    /\ pc = "read_err"
    /\ err = "FileNotFoundError"
    /\ raised.type = "ImportError"


(* build() has returned inside write.                                      *)
BuildReturned == \E i \in 1..wstep : write_try[i] = "build"

(* C21: write() makes no directory and writes no byte before build() has   *)
(* returned the buffer; when build() raises, write() raises WriterError    *)
(* and the path is as it was (no directory made, the file neither made nor *)
(* changed); when write() returns, the file holds exactly what build()     *)
(* returns, stored by one write call.                                      *)
C21_NoWriteBeforeBuilt ==
    /\ ~BuildReturned => disk \in Disks
    /\ (wpc = "write_err" /\ Poisoned(out)) => (wraised = WriterError /\ disk \in Disks)
    /\ wpc = "written" =>
         /\ ~Poisoned(out)
         /\ disk.file = "new"
         /\ disk.writes = 1
         /\ disk.bytes = build(wsrc, wver)

(* build() raised on a scene holding a decoded material while an older     *)
(* file was at the path: the file is still there, unchanged.               *)
C21_Witness ==
    /\ wpc = "write_err"
    /\ Poisoned(out)
    /\ wraised = WriterError
    /\ wsrc.materials = <<DecodedMaterial>>
    /\ disk.file = "old"
    /\ disk.bytes = OldBytes


(* C22: PackedInt._parse on a stream that ends before a byte with the high *)
(* bit clear raises StreamError and so returns no value; both encoders     *)
(* raise on a negative value (IntegerError in PackedInt._build, ValueError *)
(* in _build_varint) and emit no byte.                                     *)
C22_VarIntErrors ==
    /\ vi.stage = "truncated" =>
         /\ vi.cut < Len(vi.enc)
         /\ vi.e = "StreamError"
         /\ vi.dec = <<>>
    /\ (vi.stage # "idle" /\ vi.v.neg) =>
         /\ vi.stage = "raised"
         /\ vi.enc = <<>>
         /\ vi.e = IF vi.by = "PackedInt" THEN "IntegerError" ELSE "ValueError"

(* 2^32 - 1 encoded in five bytes by PackedInt._build, decoded from the    *)
(* first four of them.                                                     *)
C22_Witness ==
    /\ vi.stage = "truncated"
    /\ vi.by = "PackedInt"
    /\ vi.v.w = Max32
    /\ vi.cut = 4
    /\ vi.e = "StreamError"


(* The material index and first sub_material of object i of the data, and  *)
(* whether they select a sub-material of the decoded arrays.               *)
InRange(o, d) ==
    /\ o.material_index.i \in 0..(Len(d.materials) - 1)
    /\ o.meshes[1].sub_material.i
         \in 0..(Len(d.materials[o.material_index.i + 1].sub_materials) - 1)

(* C23: after create(), every object with meshes has been created; one     *)
(* whose material index or first sub_material is out of range, negative    *)
(* values included, has a default material, and one whose indices are in   *)
(* range shows the data of exactly the sub-material they name.             *)
C23_DefaultMaterial ==
    blender.pc # "new" =>
        /\ blender.pc = "created"
        /\ Len(blender.objects) = Len(data.objects)
        /\ \A i \in 1..Len(data.objects) :
             IF InRange(data.objects[i], data)
             THEN /\ blender.objects[i].material.kind = "data"
                  /\ blender.objects[i].material.m = data.objects[i].material_index.i + 1
                  /\ blender.objects[i].material.s = data.objects[i].meshes[1].sub_material.i + 1
             ELSE blender.objects[i].material.kind = "default"


(* C24: the importer's data is empty before the first read, and after any  *)
(* number of reads that succeeded it holds the materials, the retained     *)
(* objects and the cameras of the file once each, as one pass over the     *)
(* file collects them.                                                     *)
C24_PopulatedOnce ==
    /\ reads = 0 => data = EmptyData
    /\ (reads >= 1 /\ pc = "read_ok") => data = Importer_parse(content, EmptyData, 0).data


(* The file name of a path that does not end in a slash: what follows its  *)
(* last slash.                                                             *)
FileNameOf(p) ==
    LET starts == {k \in 0..Len(p) : (k = 0 \/ p[k] = Slash) /\ \A j \in (k + 1)..Len(p) : p[j] # Slash}
    IN  SubSeq(p, (CHOOSE k \in starts : TRUE) + 1, Len(p))

(* The name without its extension: the extension starts at the last dot,   *)
(* a dot that begins or ends the name starting none.                       *)
WithoutExtension(n) ==
    LET dots == {k \in 2..(Len(n) - 1) : n[k] = Dot /\ \A j \in (k + 1)..Len(n) : n[j] # Dot}
    IN  IF dots = {} THEN n ELSE SubSeq(n, 1, (CHOOSE k \in dots : TRUE) - 1)

(* r is s in lower case.                                                   *)
IsLowerOf(r, s) ==
    /\ Len(r) = Len(s)
    /\ \A i \in 1..Len(s) : r[i] = IF s[i] \in 65..90 THEN s[i] + 32 ELSE s[i]

(* r is the part of s after its last underscore, all of s when s has none. *)
IsAfterLastUnderscore(r, s) ==
    /\ \A i \in 1..Len(r) : r[i] # Underscore
    /\ \/ r = s
       \/ \E k \in 1..Len(s) : s[k] = Underscore /\ r = SubSeq(s, k + 1, Len(s))

C26_NoPartialData ==
    [][(reads' = reads + 1 /\ pc' = "read_err") => data' = data]_vars


(* What pass t has parsed is what bwx_array parses from its stream alone.  *)
AsAlone(d, alone) ==
    /\ d.pc = "done"
    /\ alone.c.e = ""
    /\ d.size = alone.v.i
    /\ d.count = alone.v.x
    /\ d.length = Len(alone.v.b)
    /\ d.data = alone.v.b
    /\ d.pos = alone.c.p

(* C27: two decode passes, however their steps alternate, each end with    *)
(* the array data length and the array that the pass yields when it runs   *)
(* alone.                                                                  *)
C27_IsolatedDecodes ==
    \A t \in Passes :
        decodes[t].pc \in {"done", "failed"} =>
            AsAlone(decodes[t], bwx_array(decodes[t].s, Cur(0)))


(* C28: a mesh frame written with a timeline t of 0..2^32 - 1 is decoded   *)
(* with MeshData.timeline = t, in both dialects.                           *)
C28_TimelineRoundTrip ==
    /\ wpc # "build_err"
    /\ pc2 # "new" =>
         /\ pc2 = "read_ok"
         /\ Len(data2.objects) = 1
         /\ Len(data2.objects[1].meshes) = 1
         /\ data2.objects[1].meshes[1].timeline = wsrc.objects[1].meshes[1].timeline


(* The length and the tag of the compact form of v in 0..2^31 - 1; no tag  *)
(* (0) for a value that is its own byte.                                   *)
CompactLen(v) == IF v < 32 THEN 1 ELSE IF v <= 255 THEN 2 ELSE IF v <= 65535 THEN 3 ELSE 5
CompactTag(v) == IF v < 32 THEN v ELSE IF v <= 255 THEN 89 ELSE IF v <= 65535 THEN 87 ELSE 73

(* C29: _build_bwx_value_compact_int(v) is 1 byte for v < 32, 2 bytes      *)
(* behind 0x59 up to 255, 3 bytes behind 0x57 up to 65535 and 5 bytes      *)
(* behind 0x49 above; bwx_value parses exactly these bytes, whatever       *)
(* follows them, and yields v.                                             *)
C29_CompactInt ==
    probe.decl = "compact_int" =>
        /\ Len(probe.arg.rec) = CompactLen(probe.arg.v)
        /\ probe.arg.rec[1] = CompactTag(probe.arg.v)
        /\ probe.e = ""
        /\ probe.used = Len(probe.arg.rec)
        /\ probe.v = PyInt(probe.arg.v)

(* 65535 in the three-byte form, parsed with nine bytes behind it.         *)
C29_Witness ==
    /\ probe.decl = "compact_int"
    /\ probe.arg.v = 65535
    /\ probe.arg.rec = <<87, 255, 255>>
    /\ Len(probe.s) = 12
    /\ probe.used = 3
    /\ probe.v = PyInt(65535)


(* The meshes of the object read back are those written: as many, and the  *)
(* i-th with the sub_material and the faces of the i-th written.           *)
SameMeshes(read, written) ==
    /\ Len(read) = Len(written)
    /\ \A i \in 1..Len(written) :
         /\ read[i].sub_material = written[i].sub_material
         /\ read[i].faces = written[i].faces

(* C30: writing an object and reading it back preserves its list of        *)
(* meshes in count, order, sub_material and faces, whatever the sequence   *)
(* of sub_material values.                                                 *)
C30_MeshSequence ==
    /\ wpc # "build_err"
    /\ pc2 # "new" =>
         /\ pc2 = "read_ok"
         /\ Len(data2.objects) = 1
         /\ SameMeshes(data2.objects[1].meshes, wsrc.objects[1].meshes)

====
